---- MODULE Spec2Model ----
(***************************************************************************)
(* led-strip-animations: a model of the border-aware window iterator, the  *)
(* color cache, the index-mapping algebra, the running light and the tick  *)
(* scheduler (timeline, processors, controller).                           *)
(*                                                                         *)
(* Each component has its own specification (SpecWindow, SpecCache,        *)
(* SpecCacheOnce, SpecIndexing, SpecFromRange, SpecLight, SpecLightClamp,  *)
(* SpecSweep, SpecStatic, SpecTimeline, SpecTimelineUneven, SpecProcessor, *)
(* SpecIteration, SpecProcessorInOrder, SpecScenario, SpecController,      *)
(* SpecControllerOverlap); the variables of the other components stay at   *)
(* their idle values.                                                      *)
(***************************************************************************)

EXTENDS Integers, Sequences, FiniteSets, TLC

VARIABLES
    build,          \* "debug" (integer overflow panics) or "release" (it wraps)
    ar,             \* ActiveRangeIter: the iterator's fields
    ar_anchor0,     \* the anchor ActiveRangeIter::new was given
    ar_chunks,      \* the chunks next() has yielded so far, in order
    ar_status,      \* "iter", "done" (next() returned None), "panic"
    cc,             \* ColorCache.multi_color_cache: None or Some(buckets)
    cc_call,        \* the last ColorCache call: [op, led, color, ret]
    ix_map,         \* an index map: <<base, combinator, combinator, ..>>, innermost first
    ix_call,        \* the last index() call on ix_map: [made, index, res]
    rl,             \* a RunningLight: the fields RunningLight::new set
    rl_call,        \* the last frame of rl: [made, tick, jumps, act_jump, anchor, outcome, ..]
    rl_fade,        \* the colors of rl: [from_color, to_color]; its fade_cache is cc
    tlb,            \* DynTimelineBuilder: [animations, repeating]
    tl,             \* None, or Some(the DynTimeline that finish() built)
    tl_query,       \* the last query of tl: [op, tick, entries, finished]
    tp,             \* None, or Some(a TimelineProcessor driven on its own)
    tp_tick,        \* the tick the next update of tp is given
    tp_call,        \* the last update of tp: [made, tick, found_finished, writes]
    am,             \* the AnimationMeta built last: [by, iteration_index,
                    \* remaining_iterations, meta]
    ac,             \* AnimationController: [processors, current_tick]
    ac_id,          \* AnimationHandle::new's static ID counter
    ac_call,        \* the last controller call: [op, handle, writes]
    strip,          \* the strip's LED colors (0 = Color::init(0, 0, 0))
    sa,             \* a StaticAnimation: [duration, range, to]; its fade_cache is cc
    sa_call         \* the renders of sa: [renders, tick, seeded, stale, colorings]

varsWindow == <<ar, ar_anchor0, ar_chunks, ar_status>>
varsCache == <<cc, cc_call>>
varsIndexing == <<ix_map, ix_call>>
varsLight == <<rl, rl_call, rl_fade>>
varsTimeline == <<tlb, tl, tl_query>>
varsProcessor == <<tp, tp_tick, tp_call, am>>
varsController == <<ac, ac_id, ac_call>>
varsSched == <<varsTimeline, varsProcessor, varsController, strip>>
varsStatic == <<sa, sa_call>>
vars == <<build, varsWindow, varsCache, varsIndexing, varsLight, varsSched, varsStatic>>

(***************************************************************************)
(* Bounds of the model.                                                    *)
(***************************************************************************)
MaxL == 7          \* largest addressable length (general_animation_len)
MaxW == 5          \* largest window length (active_animation_len)
MaxChunks == 3     \* next() is called until it has yielded this many chunks
MaxLed == 3        \* LED ids 0..MaxLed are cached
NumColors == 2     \* distinct colors written to the cache
MaxBaseLen == 4    \* longest base range or array of an index map
MaxDepth == 2      \* combinators nested over a base
MaxNth == 2        \* largest stride of every_nth
MaxShift == 1      \* largest offset of circular, either way
MaxCut == 1        \* most ordinals a bounded map drops at either end
MaxOrd == 4        \* index() is called with ordinals 0..MaxOrd
MaxStart == 1      \* latest start tick of a scheduled animation
MaxDur == 2        \* longest duration of an animation, in ticks
MaxStripLed == 1   \* the strip has the LEDs 0..MaxStripLed
MaxEntries == 2    \* most animations added to one timeline
MaxTick == 4       \* last tick an update or a query is given
MaxStep == 2       \* largest gap between two updates of a processor driven on its own
MaxQueuedEntries == 1  \* most animations of a timeline queued in the controller
MaxProcessors == 2 \* most processors the controller holds at once
MaxHandles == 3    \* handles AnimationHandle::new gives out
MaxRangeLen == 4   \* longest range a RunningLight runs over
MaxFade == 2       \* longest fade of a RunningLight (both sides of a hill together)
MaxPeak == 1       \* longest peak of a hilled RunningLight
MaxDuration == 4   \* longest duration of a RunningLight, in ticks
MaxOffset == 1     \* largest start offset of a RunningLight, either way
MaxOrderedTick == 20  \* last tick given to a processor that is updated with 0, 1, 2, ..
MaxSweepLen == 3    \* most LEDs of the strip a light is swept over
MaxSweepFade == 1   \* largest fade_len of a swept light
MaxUnevenDur == 3   \* longest animation of a timeline whose animations differ in length
MaxClampLen == 7    \* longest range a Clamp-mode RunningLight is followed over
MaxRenders == 2     \* render calls a StaticAnimation is followed over

(***************************************************************************)
(* Machine integers.  Index = LedId = u16; an overflowing u16 operation    *)
(* panics in a debug build and wraps in a release build.                   *)
(***************************************************************************)
U16 == 65536

Builds == {"debug", "release"}

Add16(a, b) == (a + b) % U16
Sub16(a, b) == (a - b) % U16
Mul16(a, b) == (a * b) % U16
AddOvf(a, b) == a + b >= U16
SubOvf(a, b) == a < b
MulOvf(a, b) == a * b >= U16

\* Option<T>
None == <<>>
Some(x) == <<x>>

(***************************************************************************)
(* Border-aware window iteration: ActiveRangeIter.                         *)
(***************************************************************************)
BorderTypes == {"ClosedStartEnd", "WrappingStart", "WrappingEnd", "WrappingStartEnd"}

\* core::ops::Range<u16>: <<start, end>>; an inverted range is empty
RangeLen(r) == IF r[2] > r[1] THEN r[2] - r[1] ELSE 0

AnchoredRange(anchor, range) == [anchor |-> anchor, range |-> range]

ActiveRangeIter_new(anchor, active_animation_len, general_animation_len, border_type) ==
    [anchor |-> anchor,
     active_animation_len |-> active_animation_len,
     general_animation_len |-> general_animation_len,
     border_type |-> border_type,
     animation_offset |-> 0]

\* ActiveRangeIter::update
ActiveRangeIter_update(it, used_len_in_iter, move_anchor_to) ==
    [it EXCEPT !.animation_offset = Add16(it.animation_offset, used_len_in_iter),
               !.anchor = move_anchor_to]

\* The branches of next() give: the chunk, the arguments of update(), whether a
\* u16 operation overflowed (ovf) and whether the branch panics in every build.
Branch(chunk, used, anchorTo, ovf, fatal) ==
    [chunk |-> chunk, used |-> used, anchorTo |-> anchorTo, ovf |-> ovf, fatal |-> fatal]

Abs(x) == IF x < 0 THEN -x ELSE x

\* start outside, ClosedStartEnd: the part before 0 is cut, terminal chunk
StartOutsideClosed(it, remaining) ==
    LET outside_len == Abs(it.anchor)
        part == <<Add16(outside_len, it.animation_offset), it.active_animation_len>>
    IN  Branch(AnchoredRange(0, part), remaining, 0,
               AddOvf(outside_len, it.animation_offset),
               outside_len >= U16)

\* start outside, WrappingStartEnd: the part before 0 goes to the end of the range
StartOutsideWrappingMutOffByOne(it, remaining) ==
    LET outside_len == Abs(it.anchor)
        part == <<it.animation_offset, outside_len>>
        len == RangeLen(part)
    IN  Branch(AnchoredRange(Sub16(it.general_animation_len, len), part), Add16(len, 1), 0,
               SubOvf(it.general_animation_len, len),
               outside_len >= U16)

\* a start-outside Wrap step that forgets to move the anchor to 0
StartOutsideWrappingMutKeepAnchor(it, remaining) ==
    LET outside_len == Abs(it.anchor)
        part == <<it.animation_offset, outside_len>>
        len == RangeLen(part)
    IN  Branch(AnchoredRange(Sub16(it.general_animation_len, len), part), len, it.anchor,
               SubOvf(it.general_animation_len, len),
               outside_len >= U16)

\* a start-outside Wrap step that places the wrapped part one ordinal too high
StartOutsideWrappingMutAnchorHigh(it, remaining) ==
    LET outside_len == Abs(it.anchor)
        part == <<it.animation_offset, outside_len>>
        len == RangeLen(part)
    IN  Branch(AnchoredRange(Add16(Sub16(it.general_animation_len, len), 1), part), len, 0,
               SubOvf(it.general_animation_len, len),
               outside_len >= U16)

StartOutsideWrapping(it, remaining) ==
    LET outside_len == Abs(it.anchor)
        part == <<it.animation_offset, outside_len>>
        len == RangeLen(part)
    IN  Branch(AnchoredRange(Sub16(it.general_animation_len, len), part), len, 0,
               SubOvf(it.general_animation_len, len),
               outside_len >= U16)

\* (u16::try_from(anchor).unwrap() + remaining) - general_animation_len
EndOutsideLen(it, remaining) ==
    Sub16(Add16(it.anchor, remaining), it.general_animation_len)

EndOutsideOvf(it, remaining) ==
    \/ AddOvf(it.anchor, remaining)
    \/ SubOvf(Add16(it.anchor, remaining), it.general_animation_len)
    \/ SubOvf(it.active_animation_len, EndOutsideLen(it, remaining))

\* end outside, ClosedStartEnd: the part beyond L is cut, terminal chunk
EndOutsideClosedMutAnchorZero(it, remaining) ==
    LET outside_len == EndOutsideLen(it, remaining)
        part == <<it.animation_offset, Sub16(it.active_animation_len, outside_len)>>
        len == RangeLen(part)
    IN  Branch(AnchoredRange(0, part),
               remaining, it.general_animation_len,
               EndOutsideOvf(it, remaining) \/ SubOvf(it.general_animation_len, len),
               it.anchor >= U16)

EndOutsideClosed(it, remaining) ==
    LET outside_len == EndOutsideLen(it, remaining)
        part == <<it.animation_offset, Sub16(it.active_animation_len, outside_len)>>
        len == RangeLen(part)
    IN  Branch(AnchoredRange(Sub16(it.general_animation_len, len), part),
               remaining, it.general_animation_len,
               EndOutsideOvf(it, remaining) \/ SubOvf(it.general_animation_len, len),
               it.anchor >= U16)

\* end outside, WrappingStartEnd: the part beyond L goes to the start of the range
EndOutsideWrappingMutAnchorZero(it, remaining) ==
    LET outside_len == EndOutsideLen(it, remaining)
        part == <<it.animation_offset, Sub16(it.active_animation_len, outside_len)>>
        len == RangeLen(part)
    IN  Branch(AnchoredRange(0, part),
               len, 0,
               EndOutsideOvf(it, remaining) \/ SubOvf(it.general_animation_len, len),
               it.anchor >= U16)

\* an end-outside Wrap step that forgets to move the anchor to 0
EndOutsideWrappingMutKeepAnchor(it, remaining) ==
    LET outside_len == EndOutsideLen(it, remaining)
        part == <<it.animation_offset, Sub16(it.active_animation_len, outside_len)>>
        len == RangeLen(part)
    IN  Branch(AnchoredRange(Sub16(it.general_animation_len, len), part),
               len, it.anchor,
               EndOutsideOvf(it, remaining) \/ SubOvf(it.general_animation_len, len),
               it.anchor >= U16)

EndOutsideWrapping(it, remaining) ==
    LET outside_len == EndOutsideLen(it, remaining)
        part == <<it.animation_offset, Sub16(it.active_animation_len, outside_len)>>
        len == RangeLen(part)
    IN  Branch(AnchoredRange(Sub16(it.general_animation_len, len), part),
               len, 0,
               EndOutsideOvf(it, remaining) \/ SubOvf(it.general_animation_len, len),
               it.anchor >= U16)

\* the window lies inside [0, L]: one final chunk
InsideRange(it, remaining) ==
    Branch(AnchoredRange(it.anchor, <<it.animation_offset, it.active_animation_len>>),
           remaining, remaining, FALSE, it.anchor >= U16)

\* next() reaches `if an_start_outside && an_end_outside { unimplemented!() }`
UnhandledBothOutside(it, dbg) ==
    LET remaining == Sub16(it.active_animation_len, it.animation_offset)
    IN  /\ ~(dbg /\ SubOvf(it.active_animation_len, it.animation_offset))
        /\ remaining # 0
        /\ it.anchor < 0
        /\ it.anchor + remaining > it.general_animation_len

\* ActiveRangeIter::next: [panic, item, it], item = None at the end of the sequence
ActiveRangeIter_next(it, dbg) ==
    LET remaining == Sub16(it.active_animation_len, it.animation_offset)
        remOvf == SubOvf(it.active_animation_len, it.animation_offset)
        an_start_outside == it.anchor < 0
        an_end_outside == it.anchor + remaining > it.general_animation_len
        Panic == [panic |-> TRUE, item |-> None, it |-> it]
        Yield(b) ==
            IF b.fatal \/ (dbg /\ (b.ovf \/ AddOvf(it.animation_offset, b.used)))
            THEN Panic
            ELSE [panic |-> FALSE, item |-> Some(b.chunk),
                  it |-> ActiveRangeIter_update(it, b.used, b.anchorTo)]
    IN  IF dbg /\ remOvf THEN Panic
        ELSE IF remaining = 0 THEN [panic |-> FALSE, item |-> None, it |-> it]
        ELSE IF UnhandledBothOutside(it, dbg) THEN Panic
        ELSE IF an_start_outside THEN
            CASE it.border_type = "ClosedStartEnd" -> Yield(StartOutsideClosed(it, remaining))
              [] it.border_type = "WrappingStartEnd" -> Yield(StartOutsideWrapping(it, remaining))
              [] OTHER -> Panic
        ELSE IF an_end_outside THEN
            CASE it.border_type = "ClosedStartEnd" ->
                    Yield(EndOutsideClosed(it, remaining))
              [] it.border_type = "WrappingStartEnd" ->
                    Yield(EndOutsideWrapping(it, remaining))
              [] OTHER -> Panic
        ELSE Yield(InsideRange(it, remaining))

\* CurveBatchIterator::update_current_iter_state and next: the items of one chunk,
\* each window position with the ordinal handed to the index map, which is the
\* chunk's anchor plus the item's place in the chunk
RECURSIVE ChunkItems(_, _)
ChunkItems(chunk, k) ==
    IF k >= RangeLen(chunk.range) THEN <<>>
    ELSE <<[pos |-> chunk.range[1] + k, ordinal |-> Add16(chunk.anchor, k)]>>
         \o ChunkItems(chunk, k + 1)

\* the items of a sequence of chunks, in the order they are rendered
RECURSIVE WindowItems(_)
WindowItems(chunks) ==
    IF chunks = <<>> THEN <<>>
    ELSE ChunkItems(Head(chunks), 0) \o WindowItems(Tail(chunks))

Anchors == (0 - MaxL - 1) .. (2 * MaxL + 1)

InitWindowVars ==
    /\ ar_anchor0 \in Anchors
    /\ \E w \in 0..MaxW, l \in 0..MaxL, b \in BorderTypes :
          ar = ActiveRangeIter_new(ar_anchor0, w, l, b)
    /\ ar_chunks = <<>>
    /\ ar_status = "iter"

\* idle values of the window variables in the other specifications
IdleWindow ==
    /\ ar_anchor0 = 0
    /\ ar = ActiveRangeIter_new(0, 0, 0, "ClosedStartEnd")
    /\ ar_chunks = <<>>
    /\ ar_status = "done"

\* one call of next() on the iterator
ArNext ==
    /\ ar_status = "iter"
    /\ Len(ar_chunks) < MaxChunks
    /\ LET r == ActiveRangeIter_next(ar, build = "debug")
       IN  /\ ar' = r.it
           /\ ar_status' = IF r.panic THEN "panic"
                           ELSE IF r.item = None THEN "done" ELSE "iter"
           /\ ar_chunks' = IF r.panic \/ r.item = None THEN ar_chunks
                           ELSE Append(ar_chunks, r.item[1])
    /\ UNCHANGED <<build, ar_anchor0, varsCache, varsIndexing, varsLight, varsStatic, varsSched>>

(***************************************************************************)
(* Color cache: SingleColor buckets and ColorCache.                        *)
(***************************************************************************)
Leds == 0..MaxLed
Colors == 1..NumColors

\* Iterator::find / find_map over a Vec: the first of the indices that match, or 0
FirstIndex(S) == IF S = {} THEN 0 ELSE CHOOSE i \in S : \A j \in S : i <= j

\* Vec::remove
RemoveAt(seq, i) == [k \in 1..(Len(seq) - 1) |-> IF k < i THEN seq[k] ELSE seq[k + 1]]

RangeContains(r, x) == r[1] <= x /\ x < r[2]

SingleColor_new(color) == [ranges |-> <<>>, single_led |-> <<>>, color |-> color]

contains_led_id(sc, led_id) ==
    \/ \E i \in 1..Len(sc.ranges) : RangeContains(sc.ranges[i], led_id)
    \/ \E i \in 1..Len(sc.single_led) : sc.single_led[i] = led_id

\* SingleColor::grouping_single_led: [sc, range], range = None when no isolated
\* neighbour of led_id is stored
grouping_single_led(sc, led_id) ==
    LET Near(led) == led = led_id + 1 \/ (led_id > 0 /\ led = led_id - 1)
        index == FirstIndex({i \in 1..Len(sc.single_led) : Near(sc.single_led[i])})
    IN  IF index = 0 THEN [sc |-> sc, range |-> None]
        ELSE LET with_led_id == sc.single_led[index]
                 start == with_led_id = led_id + 1
             IN  [sc |-> [sc EXCEPT !.single_led = RemoveAt(sc.single_led, index)],
                  range |-> IF start THEN Some(<<led_id, with_led_id + 1>>)
                            ELSE Some(<<with_led_id, led_id + 1>>)]

\* a cache_led that extends a range at its end by one id too few
cache_ledMutEndShort(sc, led_id) ==
    LET Touches(range) == range[1] = led_id + 1 \/ range[2] = led_id
        index == FirstIndex({i \in 1..Len(sc.ranges) : Touches(sc.ranges[i])})
    IN  IF index # 0 THEN
            IF sc.ranges[index][1] = led_id + 1
            THEN [sc EXCEPT !.ranges[index][1] = led_id]
            ELSE sc
        ELSE LET g == grouping_single_led(sc, led_id)
             IN  IF g.range # None
                 THEN [g.sc EXCEPT !.ranges = Append(g.sc.ranges, g.range[1])]
                 ELSE [sc EXCEPT !.single_led = Append(sc.single_led, led_id)]

\* SingleColor::cache_led
cache_led(sc, led_id) ==
    LET Touches(range) == range[1] = led_id + 1 \/ range[2] = led_id
        index == FirstIndex({i \in 1..Len(sc.ranges) : Touches(sc.ranges[i])})
    IN  IF index # 0 THEN
            IF sc.ranges[index][1] = led_id + 1
            THEN [sc EXCEPT !.ranges[index][1] = led_id]
            ELSE [sc EXCEPT !.ranges[index][2] = led_id + 1]
        ELSE LET g == grouping_single_led(sc, led_id)
             IN  IF g.range # None
                 THEN [g.sc EXCEPT !.ranges = Append(g.sc.ranges, g.range[1])]
                 ELSE [sc EXCEPT !.single_led = Append(sc.single_led, led_id)]

\* an ungroup_leds whose second piece still starts at led_id
ungroup_ledsMutKeepLed(sc, led_id) ==
    LET Holds(range) == RangeContains(range, led_id)
        index == FirstIndex({i \in 1..Len(sc.ranges) : Holds(sc.ranges[i])})
    IN  IF index = 0 THEN [sc |-> sc, ranges |-> None]
        ELSE [sc |-> [sc EXCEPT !.ranges = RemoveAt(sc.ranges, index)],
              ranges |-> Some(<< <<sc.ranges[index][1], led_id>>,
                                 <<led_id, sc.ranges[index][2]>> >>)]

\* SingleColor::ungroup_leds: [sc, ranges], ranges = None when no range holds led_id
ungroup_leds(sc, led_id) ==
    LET Holds(range) == RangeContains(range, led_id)
        index == FirstIndex({i \in 1..Len(sc.ranges) : Holds(sc.ranges[i])})
    IN  IF index = 0 THEN [sc |-> sc, ranges |-> None]
        ELSE [sc |-> [sc EXCEPT !.ranges = RemoveAt(sc.ranges, index)],
              ranges |-> Some(<< <<sc.ranges[index][1], led_id>>,
                                 <<led_id + 1, sc.ranges[index][2]>> >>)]

\* a split that drops the pieces of length 1 instead of keeping them as singles
PushPieceMutDropSingle(sc, range) ==
    IF RangeLen(range) > 1 THEN [sc EXCEPT !.ranges = Append(sc.ranges, range)]
    ELSE sc

\* the loop of uncache_led over the two pieces of a split range
PushPiece(sc, range) ==
    IF RangeLen(range) = 1 THEN [sc EXCEPT !.single_led = Append(sc.single_led, range[1])]
    ELSE IF RangeLen(range) > 1 THEN [sc EXCEPT !.ranges = Append(sc.ranges, range)]
    ELSE sc

\* an uncache_led that also takes the single after led_id for led_id
uncache_ledMutTakesNext(sc, led_id) ==
    LET r == ungroup_leds(sc, led_id)
    IN  IF r.ranges # None
        THEN [sc |-> PushPiece(PushPiece(r.sc, r.ranges[1][1]), r.ranges[1][2]),
              removed |-> TRUE]
        ELSE LET Is(led) == led = led_id \/ led = led_id + 1
                 index == FirstIndex({i \in 1..Len(sc.single_led) : Is(sc.single_led[i])})
             IN  IF index # 0
                 THEN [sc |-> [sc EXCEPT !.single_led = RemoveAt(sc.single_led, index)],
                       removed |-> TRUE]
                 ELSE [sc |-> sc, removed |-> FALSE]

\* SingleColor::uncache_led: [sc, removed]
uncache_led(sc, led_id) ==
    LET r == ungroup_leds(sc, led_id)
    IN  IF r.ranges # None
        THEN [sc |-> PushPiece(PushPiece(r.sc, r.ranges[1][1]), r.ranges[1][2]),
              removed |-> TRUE]
        ELSE LET Is(led) == led = led_id
                 index == FirstIndex({i \in 1..Len(sc.single_led) : Is(sc.single_led[i])})
             IN  IF index # 0
                 THEN [sc |-> [sc EXCEPT !.single_led = RemoveAt(sc.single_led, index)],
                       removed |-> TRUE]
                 ELSE [sc |-> sc, removed |-> FALSE]

RECURSIVE SumRangeLen(_)
SumRangeLen(ranges) ==
    IF ranges = <<>> THEN 0 ELSE RangeLen(Head(ranges)) + SumRangeLen(Tail(ranges))

cached_size(sc) == SumRangeLen(sc.ranges) + Len(sc.single_led)

ColorCache_new == None

\* ColorCache::init
ColorCache_init(cache, color) ==
    IF cache = None THEN Some(<<SingleColor_new(color)>>) ELSE cache

\* ColorCache::cache_color: [cache, ret]
ColorCache_cache_color(cache, led_id, color) ==
    LET buckets == ColorCache_init(cache, color)[1]
        HasColor(s) == s.color = color
        index == FirstIndex({i \in 1..Len(buckets) : HasColor(buckets[i])})
    IN  IF index # 0 THEN
            IF contains_led_id(buckets[index], led_id)
            THEN [cache |-> Some(buckets), ret |-> Some(buckets[index].color)]
            ELSE [cache |-> Some([buckets EXCEPT ![index] = cache_led(@, led_id)]),
                  ret |-> None]
        ELSE [cache |-> Some(Append(buckets, cache_led(SingleColor_new(color), led_id))),
              ret |-> None]

\* ColorCache::load_color
ColorCache_load_color(cache, led_id) ==
    IF cache = None THEN None
    ELSE LET Holds(s) == contains_led_id(s, led_id)
             index == FirstIndex({i \in 1..Len(cache[1]) : Holds(cache[1][i])})
         IN  IF index = 0 THEN None ELSE Some(cache[1][index].color)

\* ColorCache::remove_cache: [cache, ret]
ColorCache_remove_cache(cache, led_id) ==
    IF cache = None THEN [cache |-> cache, ret |-> None]
    ELSE LET Removes(s) == uncache_led(s, led_id).removed
             index == FirstIndex({i \in 1..Len(cache[1]) : Removes(cache[1][i])})
         IN  IF index = 0 THEN [cache |-> cache, ret |-> None]
             ELSE [cache |-> Some([cache[1] EXCEPT ![index] = uncache_led(@, led_id).sc]),
                   ret |-> Some(cache[1][index].color)]

RECURSIVE SumCached(_)
SumCached(buckets) ==
    IF buckets = <<>> THEN 0 ELSE cached_size(Head(buckets)) + SumCached(Tail(buckets))

\* ColorCache::cache_size
ColorCache_cache_size(cache) == IF cache = None THEN 0 ELSE SumCached(cache[1])

Call(op, led, color, ret) == [op |-> op, led |-> led, color |-> color, ret |-> ret]

InitCacheVars ==
    /\ cc = ColorCache_new
    /\ cc_call = Call("new", 0, 0, None)

IdleCache == InitCacheVars

CacheColor(led, color) ==
    /\ LET r == ColorCache_cache_color(cc, led, color)
       IN  /\ cc' = r.cache
           /\ cc_call' = Call("cache_color", led, color, r.ret)
    /\ UNCHANGED <<build, varsWindow, varsIndexing, varsLight, varsStatic, varsSched>>

LoadColor(led) ==
    /\ cc_call' = Call("load_color", led, 0, ColorCache_load_color(cc, led))
    /\ UNCHANGED <<build, varsWindow, cc, varsIndexing, varsLight, varsStatic, varsSched>>

RemoveCache(led) ==
    /\ LET r == ColorCache_remove_cache(cc, led)
       IN  /\ cc' = r.cache
           /\ cc_call' = Call("remove_cache", led, 0, r.ret)
    /\ UNCHANGED <<build, varsWindow, varsIndexing, varsLight, varsStatic, varsSched>>
(***************************************************************************)
(* Index maps: the Indexing trait, its base maps and its combinators.      *)
(* A map is the sequence <<base, c1, .., cn>>: cn wraps .. wraps c1 wraps  *)
(* the base.                                                               *)
(***************************************************************************)
UnevenBehavior == {"Exclude", "ToLower", "ToUpper"}

\* Result<OutputIndex, MappingError>, or a panic
Ok(ids) == [t |-> "Ok", ids |-> ids, e |-> ""]
Err(e) == [t |-> "Err", ids |-> <<>>, e |-> e]
Panicked == [t |-> "Panic", ids |-> <<>>, e |-> ""]

\* base maps
RangeBase(start, end) == [kind |-> "range", start |-> start, end |-> end]
ArrayBase(ids) == [kind |-> "array", ids |-> ids]

\* enum Bound
Bound(t, o) == [t |-> t, o |-> o]

\* combinators
ReversedIndexed == [kind |-> "reversed"]
EveryNthIndexed(nth) == [kind |-> "every_nth", nth |-> nth]
CircularIndexed(offset) == [kind |-> "circular", offset |-> offset]
BoundedIndexed(front, end) == [kind |-> "bounded", front |-> front, end |-> end]
HalfIndexed(lower, uneven) == [kind |-> "half", lower |-> lower, uneven |-> uneven]
SplitMirroredIndexed(uneven) == [kind |-> "split_mirrored", uneven |-> uneven]

Inner(m) == SubSeq(m, 1, Len(m) - 1)
Outer(m) == m[Len(m)]

\* impl Indexing for Range<u16>
Range_index(b, index) ==
    IF AddOvf(b.start, index) THEN Err("NotInMappingRange")
    ELSE IF b.start + index >= b.end THEN Err("NotInMappingRange")
    ELSE Ok(<<b.start + index>>)

Range_len(b) == IF b.end > b.start THEN b.end - b.start ELSE 0

\* impl Indexing for [LedId; N]: slice indexing panics out of bounds
Array_index(b, index) ==
    IF index >= Len(b.ids) THEN Panicked ELSE Ok(<<b.ids[index + 1]>>)

Array_len(b) == Len(b.ids)

\* the len() of each combinator, from the len() of the map it wraps
ReversedIndexed_len(inner_len) == inner_len

EveryNthIndexed_lenMutRoundUp(inner_len, nth) == inner_len \div nth + 1

EveryNthIndexed_len(inner_len, nth) == inner_len \div nth

CircularIndexed_len(inner_len) == inner_len

BoundedIndexed_front_off(c) == IF c.front.t = "None" THEN 0 ELSE c.front.o

BoundedIndexed_end_off(c, inner_len) ==
    CASE c.end.t = "None" -> 0
      [] c.end.t = "Relative" -> c.end.o
      [] c.end.t = "Absolute" -> inner_len - c.end.o - 1

BoundedIndexed_len(c, inner_len) ==
    inner_len - BoundedIndexed_front_off(c) - BoundedIndexed_end_off(c, inner_len)

SplitMirroredIndexed_len(c, indexed_len) ==
    IF indexed_len % 2 # 0
    THEN (IF c.uneven = "Exclude" THEN indexed_len \div 2 ELSE (indexed_len + 1) \div 2)
    ELSE indexed_len \div 2

HalfIndexed_len(c, inner_len) ==
    IF inner_len % 2 # 0 THEN
        IF c.lower
        THEN (IF c.uneven = "ToLower" THEN inner_len \div 2 + 1 ELSE inner_len \div 2)
        ELSE (IF c.uneven = "ToUpper" THEN inner_len \div 2 + 1 ELSE inner_len \div 2)
    ELSE inner_len \div 2

\* Indexing::len
RECURSIVE Indexing_len(_)
Indexing_len(m) ==
    IF Len(m) = 1 THEN
        (IF m[1].kind = "range" THEN Range_len(m[1]) ELSE Array_len(m[1]))
    ELSE LET c == Outer(m)
             inner_len == Indexing_len(Inner(m))
         IN  CASE c.kind = "reversed" -> ReversedIndexed_len(inner_len)
               [] c.kind = "every_nth" -> EveryNthIndexed_len(inner_len, c.nth)
               [] c.kind = "circular" -> CircularIndexed_len(inner_len)
               [] c.kind = "bounded" -> BoundedIndexed_len(c, inner_len)
               [] c.kind = "half" -> HalfIndexed_len(c, inner_len)
               [] c.kind = "split_mirrored" -> SplitMirroredIndexed_len(c, inner_len)

\* What each combinator's index() does before it asks the map it wraps:
\* [t |-> "Ask", index |-> the inner ordinal], or the error or panic it ends with.
Ask(index) == [t |-> "Ask", index |-> index, e |-> ""]
Fail(e) == [t |-> "Err", index |-> 0, e |-> e]
Crash == [t |-> "Panic", index |-> 0, e |-> ""]

\* a u16 value computed with overflow `ovf`: a panic in a debug build
Checked(ovf, value, dbg) == IF ovf /\ dbg THEN Crash ELSE Ask(value)

\* a reversal that counts back from len instead of len - 1
ReversedIndexed_indexMutFromLen(inner_len, index, dbg) ==
    IF inner_len >= U16 THEN Crash
    ELSE Checked(SubOvf(inner_len, index), Sub16(inner_len, index), dbg)

ReversedIndexed_index(inner_len, index, dbg) ==
    IF inner_len >= U16 THEN Crash
    ELSE Checked(SubOvf(inner_len, index) \/ SubOvf(Sub16(inner_len, index), 1),
                 Sub16(Sub16(inner_len, index), 1), dbg)

EveryNthIndexed_index(c, index, dbg) ==
    IF c.nth >= U16 THEN Crash
    ELSE Checked(MulOvf(index, c.nth), Mul16(index, c.nth), dbg)

\* a circle that steps back from 0 without wrapping to the end
CircularIndexed_indexMutNoWrapBack(c, inner_len, index, dbg) ==
    IF inner_len >= U16 THEN Crash
    ELSE IF index >= inner_len THEN Fail("IndexOutOfBounds")
    ELSE Ask(Abs(index + c.offset) % inner_len)

CircularIndexed_index(c, inner_len, index, dbg) ==
    IF inner_len >= U16 THEN Crash
    ELSE IF index >= inner_len THEN Fail("IndexOutOfBounds")
    ELSE LET index_with_offset == index + c.offset
         IN  IF index_with_offset < 0
             THEN (IF Abs(index_with_offset) >= U16 THEN Crash
                   ELSE Checked(SubOvf(inner_len, Abs(index_with_offset)),
                                Sub16(inner_len, Abs(index_with_offset)), dbg))
             ELSE (IF index_with_offset >= U16 THEN Crash
                   ELSE Ask(index_with_offset % inner_len))

\* a sub-range that forgets its front offset
BoundedIndexed_indexMutNoFront(c, inner_len, index, dbg) ==
    IF BoundedIndexed_len(c, inner_len) >= U16 THEN Fail("IndexOutOfBounds")
    ELSE IF index >= BoundedIndexed_len(c, inner_len) THEN Fail("NotInMappingRange")
    ELSE Ask(index)

BoundedIndexed_index(c, inner_len, index, dbg) ==
    IF BoundedIndexed_len(c, inner_len) >= U16 THEN Fail("IndexOutOfBounds")
    ELSE IF index >= BoundedIndexed_len(c, inner_len) THEN Fail("NotInMappingRange")
    ELSE IF BoundedIndexed_front_off(c) >= U16 THEN Crash
    ELSE Checked(AddOvf(index, BoundedIndexed_front_off(c)),
                 Add16(index, BoundedIndexed_front_off(c)), dbg)

\* an upper half that starts at the first ordinal like the lower one
HalfIndexed_indexMutNoOffset(c, inner_len, index, dbg) == Ask(index)

HalfIndexed_index(c, inner_len, index, dbg) ==
    IF c.lower THEN Ask(index)
    ELSE IF inner_len - HalfIndexed_len(c, inner_len) >= U16 THEN Crash
    ELSE Checked(AddOvf(index, inner_len - HalfIndexed_len(c, inner_len)),
                 Add16(index, inner_len - HalfIndexed_len(c, inner_len)), dbg)

\* SplitMirroredIndexed asks twice: front_index, then back_index
SplitMirroredIndexed_front(c, inner_len, index, dbg) ==
    IF SplitMirroredIndexed_len(c, inner_len) >= U16 THEN Crash
    ELSE IF index >= SplitMirroredIndexed_len(c, inner_len) THEN Fail("NotInMappingRange")
    ELSE IF inner_len >= U16 THEN Crash
    ELSE IF dbg /\ (SubOvf(inner_len, index) \/ SubOvf(Sub16(inner_len, index), 1)) THEN Crash
    ELSE Ask(index)

\* a mirror that counts the back index from the front as well
SplitMirroredIndexed_backMutFront(inner_len, index) == index

SplitMirroredIndexed_back(inner_len, index) == Sub16(Sub16(inner_len, index), 1)

\* the result of the wrapped map handed on (Result::Err by `?`, a panic unwinds)
Forward(q, inner_result) ==
    CASE q.t = "Err" -> Err(q.e)
      [] q.t = "Panic" -> Panicked
      [] q.t = "Ask" -> inner_result

\* Indexing::index
RECURSIVE Indexing_index(_, _, _)
Indexing_index(m, index, dbg) ==
    IF Len(m) = 1 THEN
        (IF m[1].kind = "range" THEN Range_index(m[1], index) ELSE Array_index(m[1], index))
    ELSE LET c == Outer(m)
             inner == Inner(m)
             inner_len == Indexing_len(inner)
             q == CASE c.kind = "reversed" -> ReversedIndexed_index(inner_len, index, dbg)
                    [] c.kind = "every_nth" -> EveryNthIndexed_index(c, index, dbg)
                    [] c.kind = "circular" -> CircularIndexed_index(c, inner_len, index, dbg)
                    [] c.kind = "bounded" -> BoundedIndexed_index(c, inner_len, index, dbg)
                    [] c.kind = "half" -> HalfIndexed_index(c, inner_len, index, dbg)
                    [] c.kind = "split_mirrored" ->
                           SplitMirroredIndexed_front(c, inner_len, index, dbg)
         IN  IF q.t # "Ask" THEN Forward(q, Panicked)
             ELSE IF c.kind # "split_mirrored" THEN Indexing_index(inner, q.index, dbg)
             ELSE LET front == Indexing_index(inner, q.index, dbg)
                      back == Indexing_index(inner,
                                  SplitMirroredIndexed_back(inner_len, index), dbg)
                  IN  IF front.t # "Ok" THEN front
                      ELSE IF back.t # "Ok" THEN back
                      ELSE Ok(<<front.ids[1], back.ids[1]>>)

\* SplitMirroredIndexed needs an inner map with OutputIndex = SingleIndexed
SingleOutput(m) == \A i \in 2..Len(m) : m[i].kind # "split_mirrored"

\* a base array: n distinct LED ids, descending to `first`
DescendingIds(n, first) == [i \in 1..n |-> first + n - i]

NoCall == [made |-> FALSE, index |-> 0, res |-> Panicked]

InitIndexingVars ==
    /\ \E n \in 0..MaxBaseLen :
          \/ ix_map = <<RangeBase(1, 1 + n)>>
          \/ ix_map = <<ArrayBase(DescendingIds(n, 0))>>
    /\ ix_call = NoCall

IdleIndexing ==
    /\ ix_map = <<RangeBase(0, 0)>>
    /\ ix_call = NoCall

\* wrapping ix_map in one more combinator
Wrap(c) ==
    /\ ~ix_call.made
    /\ Len(ix_map) <= MaxDepth
    /\ ix_map' = Append(ix_map, c)
    /\ ix_call' = NoCall
    /\ UNCHANGED <<build, varsWindow, varsCache, varsLight, varsStatic, varsSched>>

\* IndexingExt::reversed
IxReversed == Wrap(ReversedIndexed)

\* IndexingExt::every_nth
IxEveryNth(n) == Wrap(EveryNthIndexed(n))

\* IndexingExt::circular; CircularIndexed::new asserts |offset| < len
IxCircular(offset) ==
    /\ Abs(offset) < Indexing_len(ix_map)
    /\ Wrap(CircularIndexed(offset))

\* IndexingExt::bounded(a..b) = BoundedIndexed::from_range with a half-open range
\* inside the wrapped map: core_bounds_to_bounds gives Absolute(a), Absolute(b - 1)
IxBounded(a, b) ==
    /\ a <= b /\ 1 <= b /\ b <= Indexing_len(ix_map)
    /\ Wrap(BoundedIndexed(Bound("Absolute", a), Bound("Absolute", b - 1)))

\* BoundedIndexed::from_bounds with offsets inside the wrapped map
IxFromBounds(front, end) ==
    /\ end.t = "Absolute" => end.o < Indexing_len(ix_map)
    /\ BoundedIndexed_front_off(BoundedIndexed(front, end))
         + BoundedIndexed_end_off(BoundedIndexed(front, end), Indexing_len(ix_map))
         <= Indexing_len(ix_map)
    /\ Wrap(BoundedIndexed(front, end))

\* core::ops::Bound<&LedId> of a range given to from_range
CoreBound(t, o) == [t |-> t, o |-> o]

\* core_bounds_to_bounds(core_bound, start); LedId arithmetic is u16
core_bounds_to_bounds(core_bound, start) ==
    LET off == IF start THEN 0 ELSE 1
    IN  CASE core_bound.t = "Included" -> Bound("Absolute", Add16(core_bound.o, off))
          [] core_bound.t = "Excluded" -> Bound("Absolute", Sub16(core_bound.o, off))
          [] core_bound.t = "Unbounded" -> Bound("None", 0)

\* BoundedIndexed::from_range(indexer, range); the bounds of the range are kept
\* beside the bounds they were converted to
BoundedIndexed_from_range(start_bound, end_bound) ==
    [kind |-> "bounded",
     front |-> core_bounds_to_bounds(start_bound, TRUE),
     end |-> core_bounds_to_bounds(end_bound, FALSE),
     range |-> [start_bound |-> start_bound, end_bound |-> end_bound]]

\* the first ordinal of M inside the range and the first one beyond it
RangeFirst(range) ==
    CASE range.start_bound.t = "Included" -> range.start_bound.o
      [] range.start_bound.t = "Excluded" -> range.start_bound.o + 1
      [] range.start_bound.t = "Unbounded" -> 0

RangeBeyond(range, len) ==
    CASE range.end_bound.t = "Included" -> range.end_bound.o + 1
      [] range.end_bound.t = "Excluded" -> range.end_bound.o
      [] range.end_bound.t = "Unbounded" -> len

\* BoundedIndexed::from_range with a range inside the wrapped map whose
\* converted bounds lie inside it too
IxFromRange(start_bound, end_bound) ==
    LET c == BoundedIndexed_from_range(start_bound, end_bound)
        len == Indexing_len(ix_map)
    IN  /\ RangeFirst(c.range) <= RangeBeyond(c.range, len)
        /\ RangeBeyond(c.range, len) <= len
        /\ end_bound.t = "Excluded" => end_bound.o >= 1
        /\ c.end.t = "Absolute" => c.end.o < len
        /\ Wrap(c)

\* IndexingExt::split_into_half, keeping one of the two halves
IxSplitIntoHalf(lower, uneven) == Wrap(HalfIndexed(lower, uneven))

\* IndexingExt::split_mirrored
IxSplitMirrored(uneven) ==
    /\ SingleOutput(ix_map)
    /\ Wrap(SplitMirroredIndexed(uneven))

\* Indexing::index(i) on the map
IxIndex(i) ==
    /\ ix_call' = [made |-> TRUE, index |-> i,
                   res |-> Indexing_index(ix_map, i, build = "debug")]
    /\ UNCHANGED <<build, varsWindow, varsCache, ix_map, varsLight, varsStatic, varsSched>>

(***************************************************************************)
(* f32 arithmetic of scale_time_to_jump.  A positive finite f32 is          *)
(* m * 2^e with a 24-bit mantissa 2^23 <= m < 2^24; the values of the       *)
(* model stay far from the subnormal and the overflow range.                *)
(***************************************************************************)
F32Zero == [k |-> "zero", m |-> 0, e |-> 0]
F32Inf == [k |-> "inf", m |-> 0, e |-> 0]
F32NaN == [k |-> "nan", m |-> 0, e |-> 0]
F32Num(m, e) == [k |-> "num", m |-> m, e |-> e]

\* shift a positive integer below 2^24 up to a 24-bit mantissa
RECURSIVE F32Normalize(_, _)
F32Normalize(m, e) == IF m >= 8388608 THEN F32Num(m, e) ELSE F32Normalize(2 * m, e - 1)

\* `n as f32` for an integer 0 <= n < 2^24 (exact)
F32FromNat(n) == IF n = 0 THEN F32Zero ELSE F32Normalize(n, 0)

\* binary long division: n more quotient bits of rem / d, rem < d
RECURSIVE F32DivBits(_, _, _, _)
F32DivBits(rem, d, n, acc) ==
    IF n = 0 THEN [q |-> acc, r |-> rem]
    ELSE IF 2 * rem >= d THEN F32DivBits(2 * rem - d, d, n - 1, 2 * acc + 1)
         ELSE F32DivBits(2 * rem, d, n - 1, 2 * acc)

\* round to nearest, ties to even; q has 24 bits, r is the remainder below d
F32Round(q, r, d, e) ==
    LET up == 2 * r > d \/ (2 * r = d /\ q % 2 = 1)
        m == IF up THEN q + 1 ELSE q
    IN  IF m = 16777216 THEN F32Num(8388608, e + 1) ELSE F32Num(m, e)

\* x / y in f32 (IEEE 754 division, round to nearest even)
F32Div(x, y) ==
    CASE x.k = "nan" \/ y.k = "nan" -> F32NaN
      [] x.k = "zero" /\ y.k = "zero" -> F32NaN
      [] x.k = "inf" /\ y.k = "inf" -> F32NaN
      [] x.k = "zero" \/ y.k = "inf" -> F32Zero
      [] x.k = "inf" \/ y.k = "zero" -> F32Inf
      [] OTHER ->
           IF x.m >= y.m
           THEN LET b == F32DivBits(x.m - y.m, y.m, 23, 1)
                IN  F32Round(b.q, b.r, y.m, x.e - y.e - 23)
           ELSE LET b == F32DivBits(x.m, y.m, 24, 0)
                IN  F32Round(b.q, b.r, y.m, x.e - y.e - 24)

I16Max == 32767

\* `x as i16` for x >= 0: truncation toward zero, saturating; NaN gives 0
F32AsI16(x) ==
    CASE x.k = "nan" \/ x.k = "zero" -> 0
      [] x.k = "inf" -> I16Max
      [] OTHER ->
           IF x.e >= 0 THEN I16Max
           ELSE IF x.e <= -24 THEN 0
           ELSE LET t == x.m \div (2 ^ (0 - x.e))
                IN  IF t > I16Max THEN I16Max ELSE t

(***************************************************************************)
(* RunningLight (animation/running_light.rs): a window of animation_len    *)
(* LEDs that moves over an index map, one jump at a time.                  *)
(***************************************************************************)
FadeToColor(fade_len) == [kind |-> "FadeToColor", fade_len |-> fade_len, peak_len |-> 0]
HilledSymmetric(f, peak_len) == [kind |-> "Hilled", fade_len |-> f, peak_len |-> peak_len]

\* AnimationType::animation_len; the lengths of the model stay far below 2^16
AnimationType_animation_len(animation) ==
    IF animation.kind = "FadeToColor" THEN Add16(animation.fade_len, 2)
    ELSE Add16(Add16(Mul16(animation.fade_len, 2), 2), animation.peak_len)

\* RunningLight::new: every argument is taken as it comes
RunningLight_new(duration, range, start_offset, circle, animation) ==
    [duration |-> duration,
     range |-> range,
     start_offset |-> start_offset,
     animation |-> animation,
     border_wrapping |-> IF circle THEN "WrappingStartEnd" ELSE "ClosedStartEnd"]

\* a u16 result, or a panic
Val(v) == [panic |-> FALSE, v |-> v]
NoVal == [panic |-> TRUE, v |-> 0]

calc_animation_jumps(range, animation_len, border, dbg) ==
    LET led_range_len == Indexing_len(range) % U16
    IN  CASE border = "ClosedStartEnd" ->
                IF dbg /\ (SubOvf(animation_len, 2)
                           \/ AddOvf(led_range_len, Sub16(animation_len, 2)))
                THEN NoVal
                ELSE Val(Add16(led_range_len, Sub16(animation_len, 2)))
          [] border = "WrappingStartEnd" ->
                IF dbg /\ SubOvf(led_range_len, 1) THEN NoVal
                ELSE Val(Sub16(led_range_len, 1))
          [] OTHER -> NoVal

\* `x as i16` of a u16
U16AsI16(x) == IF x > I16Max THEN x - U16 ELSE x

\* scale_time_to_jump; |i16::MIN| as u16 is 32768 and arises in a release build only
scale_time_to_jump(time, duration, jumps, start_offset, dbg) ==
    LET scaled == F32AsI16(F32Div(F32FromNat(time),
                                  F32Div(F32FromNat(duration), F32FromNat(jumps))))
        sum == scaled + start_offset
        jump == IF sum > I16Max THEN sum - U16 ELSE sum
    IN  IF dbg /\ sum > I16Max THEN NoVal
        ELSE IF jump > U16AsI16(jumps) THEN
            (IF jumps = 0 THEN NoVal ELSE Val(Abs(jump) % jumps))
        ELSE IF jump < 0 THEN
            (IF dbg /\ SubOvf(jumps, Abs(jump)) THEN NoVal ELSE Val(Sub16(jumps, Abs(jump))))
        ELSE Val(jump)

\* scale_jump_to_animation_start (i32)
scale_jump_to_animation_start(animation_len, act_jump) ==
    0 - Sub16(animation_len, 1) + act_jump

\* the outcome of rendering one frame
Frame(outcome, chunks, ordinals) ==
    [outcome |-> outcome, chunks |-> chunks, ordinals |-> ordinals]

\* the ordinals of the chunk's items from the k-th on, up to the first one the
\* index map refuses
RECURSIVE MappedPrefix(_, _, _, _)
MappedPrefix(range, chunk, k, dbg) ==
    IF k >= RangeLen(chunk.range) THEN <<>>
    ELSE IF Indexing_index(range, Add16(chunk.anchor, k), dbg).t # "Ok" THEN <<>>
    ELSE <<Add16(chunk.anchor, k)>> \o MappedPrefix(range, chunk, k + 1, dbg)

\* CurveBatchIterator::next until it returns None or panics: chunk by chunk,
\* every item of a chunk is mapped before the next chunk is asked for
RECURSIVE CurveBatchIterator_drain(_, _, _, _)
CurveBatchIterator_drain(it, range, dbg, fuel) ==
    LET r == ActiveRangeIter_next(it, dbg)
    IN  IF r.panic THEN
            Frame(IF UnhandledBothOutside(it, dbg) THEN "both_outside" ELSE "panic",
                  <<>>, <<>>)
        ELSE IF r.item = None THEN Frame("ok", <<>>, <<>>)
        ELSE LET chunk == r.item[1]
                 mapped == MappedPrefix(range, chunk, 0, dbg)
             IN  IF Len(mapped) < RangeLen(chunk.range)
                 THEN Frame("out_of_range", <<chunk>>, mapped)
                 ELSE IF fuel = 0 THEN Frame("more", <<chunk>>, mapped)
                 ELSE LET rest == CurveBatchIterator_drain(r.it, range, dbg, fuel - 1)
                      IN  Frame(rest.outcome, <<chunk>> \o rest.chunks,
                                mapped \o rest.ordinals)

\* RunningLight::animate and the consumption of the iterator it returns
RunningLight_animate(light, current_tick, dbg) ==
    LET animation_len == AnimationType_animation_len(light.animation)
        jumps == calc_animation_jumps(light.range, animation_len, light.border_wrapping, dbg)
        act_jump == scale_time_to_jump(current_tick, light.duration, jumps.v,
                                       light.start_offset, dbg)
        start_led_id == scale_jump_to_animation_start(animation_len, act_jump.v)
        frame == CurveBatchIterator_drain(
                     ActiveRangeIter_new(start_led_id, animation_len,
                                         Indexing_len(light.range), light.border_wrapping),
                     light.range, dbg, MaxChunks)
    IN  IF jumps.panic \/ act_jump.panic \/ (dbg /\ SubOvf(animation_len, 1))
        THEN [made |-> TRUE, tick |-> current_tick, jumps |-> jumps.v, act_jump |-> 0,
              anchor |-> 0, outcome |-> "panic", chunks |-> <<>>, ordinals |-> <<>>]
        ELSE [made |-> TRUE, tick |-> current_tick, jumps |-> jumps.v,
              act_jump |-> act_jump.v, anchor |-> start_led_id,
              outcome |-> frame.outcome, chunks |-> frame.chunks,
              ordinals |-> frame.ordinals]

NoFrame ==
    [made |-> FALSE, tick |-> 0, jumps |-> 0, act_jump |-> 0, anchor |-> 0,
     outcome |-> "ok", chunks |-> <<>>, ordinals |-> <<>>]

\* enum FromColoring and the colors of a light; a light whose colors play no
\* part fades from black to black
Dynamic == [kind |-> "Dynamic"]
Fixed(color) == [kind |-> "Fixed", color |-> color]
Fade(from_color, to_color) == [from_color |-> from_color, to_color |-> to_color]
NoFade == Fade(Fixed(0), 0)

AnimationTypes ==
    {FadeToColor(f) : f \in 0..MaxFade}
        \cup {HilledSymmetric(f, p) : f \in 0..(MaxFade \div 2), p \in 0..MaxPeak}

InitLightVars ==
    /\ \E duration \in 1..MaxDuration, n \in 0..MaxRangeLen,
          start_offset \in (0 - MaxOffset)..MaxOffset, circle \in BOOLEAN,
          animation \in AnimationTypes :
          rl = RunningLight_new(duration, <<RangeBase(0, n)>>, start_offset, circle, animation)
    /\ rl_call = NoFrame
    /\ rl_fade = NoFade

IdleLight ==
    /\ rl = RunningLight_new(1, <<RangeBase(0, 0)>>, 0, FALSE, FadeToColor(0))
    /\ rl_call = NoFrame
    /\ rl_fade = NoFade

\* one frame: animate(current_tick, ..) consumed to its end
RlAnimate(current_tick) ==
    /\ rl_call' = RunningLight_animate(rl, current_tick, build = "debug")
    /\ UNCHANGED <<build, varsWindow, varsCache, varsIndexing, rl, rl_fade, varsStatic, varsSched>>

(***************************************************************************)
(* Timeline (timeline.rs).  Tick = Ticks = u32; the ticks of the model     *)
(* stay far below 2^32, so no u32 operation overflows.                     *)
(***************************************************************************)
StripLeds == 0..MaxStripLed

\* An implementation of trait Animation: for `duration` ticks it colors one
\* LED with one color; animate() yields that one LedColoring at every tick.
TestAnimation(duration, led, color) == [duration |-> duration, led |-> led, color |-> color]

TestAnimations == {TestAnimation(d, l, c) : d \in 1..MaxDur, l \in StripLeds, c \in Colors}

\* Animation::duration
Animation_duration(a) == a.duration

\* Animation::animate(current_tick, strip, animation_meta): the LedColorings
Animation_animate(a, current_tick) == <<[led |-> a.led, color |-> a.color]>>

\* TimedAnimation(at_tick, animation)
TimedAnimation_new(at_tick, animation) == [at_tick |-> at_tick, animation |-> animation]

TimedAnimation_animation_duration(e) == Animation_duration(e.animation)

\* DynTimelineBuilder
DynTimelineBuilder_new == [animations |-> <<>>, repeating |-> FALSE]

DynTimelineBuilder_add_animation(b, start, animation) ==
    [b EXCEPT !.animations = Append(@, TimedAnimation_new(start, animation))]

DynTimelineBuilder_repeating(b) == [b EXCEPT !.repeating = TRUE]

\* a sort that puts an entry before the entries of its own start tick
InsertByStartMutBeforeEqual(sorted, e) ==
    LET k == Cardinality({i \in 1..Len(sorted) : sorted[i].at_tick < e.at_tick})
    IN  SubSeq(sorted, 1, k) \o <<e>> \o SubSeq(sorted, k + 1, Len(sorted))

\* Vec::sort_by on the start tick; the sort is stable
InsertByStart(sorted, e) ==
    LET k == Cardinality({i \in 1..Len(sorted) : sorted[i].at_tick <= e.at_tick})
    IN  SubSeq(sorted, 1, k) \o <<e>> \o SubSeq(sorted, k + 1, Len(sorted))

RECURSIVE SortByStart(_)
SortByStart(s) ==
    IF s = <<>> THEN <<>>
    ELSE InsertByStart(SortByStart(SubSeq(s, 1, Len(s) - 1)), s[Len(s)])

DynTimelineBuilder_finish(b) ==
    [entries |-> SortByStart(b.animations), repeating |-> b.repeating]

\* DynTimelineIter over the entries s: [act_index, within_tick]
DynTimelineIter_new(within_tick) == [act_index |-> 0, within_tick |-> within_tick]

\* a next() that never moves past an entry that has ended
SkipEndedMutNoSkip(s, act_index, within_tick) == act_index

\* the loop of next(): act_index moves past the entries that have ended
RECURSIVE SkipEnded(_, _, _)
SkipEnded(s, act_index, within_tick) ==
    IF Len(s) <= act_index THEN act_index
    ELSE IF within_tick > s[act_index + 1].at_tick
                            + TimedAnimation_animation_duration(s[act_index + 1])
         THEN SkipEnded(s, act_index + 1, within_tick)
         ELSE act_index

\* DynTimelineIter::next: [item |-> None or Some(position of the entry in s), it]
DynTimelineIter_next(s, it) ==
    LET i == SkipEnded(s, it.act_index, it.within_tick)
    IN  IF Len(s) <= i THEN [item |-> None, it |-> [it EXCEPT !.act_index = i]]
        ELSE [item |-> IF s[i + 1].at_tick < it.within_tick THEN Some(i + 1) ELSE None,
              it |-> [it EXCEPT !.act_index = i + 1]]

\* `for anim in iter`: the items next() yields until it returns None
RECURSIVE Drain(_, _)
Drain(s, it) ==
    LET r == DynTimelineIter_next(s, it)
    IN  IF r.item = None THEN <<>> ELSE <<r.item[1]>> \o Drain(s, r.it)

\* DynTimeline::get_current_entries(current_tick), iterated to its end:
\* the positions in timeline.entries of the entries it yields, in order
DynTimeline_get_current_entries(timeline, current_tick) ==
    Drain(timeline.entries, DynTimelineIter_new(current_tick))

\* a timeline with entries that never counts as finished
DynTimeline_has_finishedMutNever(timeline, act_tick) == timeline.entries = <<>>

\* DynTimeline::has_finished
DynTimeline_has_finished(timeline, act_tick) ==
    IF timeline.entries = <<>> THEN TRUE
    ELSE LET e == timeline.entries[Len(timeline.entries)]
         IN  e.at_tick + Animation_duration(e.animation) < act_tick

\* a timeline that is never taken to repeat
DynTimeline_should_repeatMutNever(timeline) == FALSE

\* DynTimeline::should_repeat
DynTimeline_should_repeat(timeline) == timeline.repeating

NoQuery == [op |-> "none", tick |-> 0, entries |-> <<>>, finished |-> FALSE]

InitTimelineVars ==
    /\ tlb = DynTimelineBuilder_new
    /\ tl = None
    /\ tl_query = NoQuery

IdleTimeline == InitTimelineVars

\* DynTimelineBuilder::add_animation
TlAddAnimation(start, animation) ==
    /\ tl = None
    /\ Len(tlb.animations) < MaxEntries
    /\ tlb' = DynTimelineBuilder_add_animation(tlb, start, animation)
    /\ UNCHANGED <<build, varsWindow, varsCache, varsIndexing, varsLight, varsStatic, tl, tl_query,
                   varsProcessor, varsController, strip>>

\* DynTimelineBuilder::repeating
TlRepeating ==
    /\ tl = None
    /\ ~tlb.repeating
    /\ tlb' = DynTimelineBuilder_repeating(tlb)
    /\ UNCHANGED <<build, varsWindow, varsCache, varsIndexing, varsLight, varsStatic, tl, tl_query,
                   varsProcessor, varsController, strip>>

\* DynTimelineBuilder::finish
TlFinish ==
    /\ tl = None
    /\ tl' = Some(DynTimelineBuilder_finish(tlb))
    /\ UNCHANGED <<build, varsWindow, varsCache, varsIndexing, varsLight, varsStatic, tlb, tl_query,
                   varsProcessor, varsController, strip>>

\* DynTimeline::get_current_entries(t), iterated to its end
TlGetCurrentEntries(t) ==
    /\ tl # None
    /\ tl_query' = [op |-> "get_current_entries", tick |-> t,
                    entries |-> DynTimeline_get_current_entries(tl[1], t),
                    finished |-> FALSE]
    /\ UNCHANGED <<build, varsWindow, varsCache, varsIndexing, varsLight, varsStatic, tlb, tl,
                   varsProcessor, varsController, strip>>

\* DynTimeline::has_finished(t)
TlHasFinished(t) ==
    /\ tl # None
    /\ tl_query' = [op |-> "has_finished", tick |-> t, entries |-> <<>>,
                    finished |-> DynTimeline_has_finished(tl[1], t)]
    /\ UNCHANGED <<build, varsWindow, varsCache, varsIndexing, varsLight, varsStatic, tlb, tl,
                   varsProcessor, varsController, strip>>

(***************************************************************************)
(* Strip (strip.rs) and the processors (processing.rs).                    *)
(***************************************************************************)
\* LedStrip::new: every LED is Color::init(0, 0, 0)
Strip_new == [led \in StripLeds |-> 0]

\* Strip::set_led_to_color
Strip_set_led_to_color(s, led_id, color) == [s EXCEPT ![led_id] = color]

\* colorings written back to front: the first writer of a LED wins
RECURSIVE SetColoringsMutFirstWins(_, _)
SetColoringsMutFirstWins(s, colorings) ==
    IF colorings = <<>> THEN s
    ELSE Strip_set_led_to_color(SetColoringsMutFirstWins(s, Tail(colorings)),
                                colorings[1].led, colorings[1].color)

\* the LedColorings of one update written to the strip, in order
RECURSIVE SetColorings(_, _)
SetColorings(s, colorings) ==
    IF colorings = <<>> THEN s
    ELSE SetColorings(Strip_set_led_to_color(s, colorings[1].led, colorings[1].color),
                      Tail(colorings))

\* TimelineProcessor::new
TimelineProcessor_new(timeline) ==
    [kind |-> "timeline", timeline |-> timeline, no_work |-> FALSE,
     tick_offset |-> 0, iteration_index |-> 0]

\* the `for anim in animations` loop of TimelineProcessor::update
RECURSIVE RenderEntries(_, _, _)
RenderEntries(entries, positions, tick) ==
    IF positions = <<>> THEN <<>>
    ELSE LET anim == entries[positions[1]]
         IN  Animation_animate(anim.animation, tick - anim.at_tick)
               \o RenderEntries(entries, Tail(positions), tick)

\* an update that counts the iteration of a repeating timeline but keeps its
\* tick_offset
TimelineProcessor_updateMutKeepOffset(p, current_tick) ==
    LET found_finished == DynTimeline_has_finished(p.timeline, current_tick - p.tick_offset)
        p1 == IF ~found_finished THEN p
              ELSE IF DynTimeline_should_repeat(p.timeline)
                   THEN [p EXCEPT !.iteration_index = @ + 1]
                   ELSE [p EXCEPT !.no_work = TRUE]
        tick == current_tick - p1.tick_offset
        animations == DynTimeline_get_current_entries(p1.timeline, tick)
    IN  [proc |-> p1,
         writes |-> RenderEntries(p1.timeline.entries, animations, tick),
         found_finished |-> found_finished]

\* TimelineProcessor::update: [proc, writes, found_finished]
TimelineProcessor_update(p, current_tick) ==
    LET found_finished == DynTimeline_has_finished(p.timeline, current_tick - p.tick_offset)
        p1 == IF ~found_finished THEN p
              ELSE IF DynTimeline_should_repeat(p.timeline)
                   THEN [p EXCEPT !.tick_offset = current_tick,
                                  !.iteration_index = @ + 1]
                   ELSE [p EXCEPT !.no_work = TRUE]
        tick == current_tick - p1.tick_offset
        animations == DynTimeline_get_current_entries(p1.timeline, tick)
    IN  [proc |-> p1,
         writes |-> RenderEntries(p1.timeline.entries, animations, tick),
         found_finished |-> found_finished]

\* SingleAnimationProcessor::new
SingleAnimationProcessor_new(animation) ==
    [kind |-> "single", animation |-> animation, has_finished |-> FALSE]

\* SingleAnimationProcessor::update
SingleAnimationProcessor_update(p, current_tick) ==
    LET start == p.animation.at_tick
    IN  IF start + Animation_duration(p.animation.animation) > current_tick
        THEN [proc |-> [p EXCEPT !.has_finished = TRUE], writes |-> <<>>,
              found_finished |-> TRUE]
        ELSE [proc |-> p,
              writes |-> Animation_animate(p.animation.animation, current_tick - start),
              found_finished |-> FALSE]

\* Processor::update
Processor_update(p, current_tick) ==
    IF p.kind = "timeline" THEN TimelineProcessor_update(p, current_tick)
    ELSE SingleAnimationProcessor_update(p, current_tick)

\* Processor::has_no_work
Processor_has_no_work(p) == IF p.kind = "timeline" THEN p.no_work ELSE p.has_finished

\* the largest count; it stands for u32::MAX = 2^32 - 1, which TLC's integers do
\* not reach: the code compares a count with 0 and stores it, nothing else
U32Max == 2147483647

\* a new that has no Single: the first iteration is First also when it is the last
IterationState_newMutNoSingle(iteration_index, remaining_iterations) ==
    IF iteration_index = 0
    THEN [tag |-> "First", remaining_iterations |-> remaining_iterations]
    ELSE IF remaining_iterations = 0
    THEN [tag |-> "Last", iteration_index |-> iteration_index]
    ELSE [tag |-> "Looping", iteration_index |-> iteration_index,
          remaining_iterations |-> remaining_iterations]

\* IterationState::new; a variant is a record of its tag and its fields
IterationState_new(iteration_index, remaining_iterations) ==
    IF iteration_index = 0 /\ remaining_iterations = 0
    THEN [tag |-> "Single"]
    ELSE IF iteration_index = 0
    THEN [tag |-> "First", remaining_iterations |-> remaining_iterations]
    ELSE IF remaining_iterations = 0
    THEN [tag |-> "Last", iteration_index |-> iteration_index]
    ELSE [tag |-> "Looping", iteration_index |-> iteration_index,
          remaining_iterations |-> remaining_iterations]

\* AnimationMeta::new
AnimationMeta_new(iteration_state) == [iteration_state |-> iteration_state]

NoMeta == [by |-> "none", iteration_index |-> 0, remaining_iterations |-> 0, meta |-> None]

NoUpdate == [made |-> FALSE, tick |-> 0, found_finished |-> FALSE, writes |-> <<>>]

InitProcessorVars ==
    /\ tp = None
    /\ tp_tick = 0
    /\ tp_call = NoUpdate
    /\ am = NoMeta

IdleProcessor == InitProcessorVars

\* TimelineProcessor::new(timeline, strip) over the timeline that was built
TpNew ==
    /\ tl # None
    /\ tp = None
    /\ tp' = Some(TimelineProcessor_new(tl[1]))
    /\ UNCHANGED <<build, varsWindow, varsCache, varsIndexing, varsLight, varsStatic, varsTimeline,
                   tp_tick, tp_call, am, varsController, strip>>

\* TimelineProcessor::update(tp_tick); the next update comes `step` ticks later;
\* am is the AnimationMeta the update hands to every animation it renders
TpUpdateStep(step) ==
    /\ tp # None
    /\ LET r == TimelineProcessor_update(tp[1], tp_tick)
       IN  /\ tp' = Some(r.proc)
           /\ tp_call' = [made |-> TRUE, tick |-> tp_tick,
                          found_finished |-> r.found_finished, writes |-> r.writes]
           /\ strip' = SetColorings(strip, r.writes)
           /\ am' = [by |-> "update", iteration_index |-> r.proc.iteration_index,
                     remaining_iterations |-> U32Max,
                     meta |-> AnimationMeta_new(
                                  IterationState_new(r.proc.iteration_index, U32Max))]
    /\ tp_tick' = tp_tick + step
    /\ UNCHANGED <<build, varsWindow, varsCache, varsIndexing, varsLight, varsStatic, varsTimeline,
                   varsController>>

\* AnimationMeta::new(IterationState::new(iteration_index, remaining_iterations))
AmNew(iteration_index, remaining_iterations) ==
    /\ am' = [by |-> "new", iteration_index |-> iteration_index,
              remaining_iterations |-> remaining_iterations,
              meta |-> AnimationMeta_new(
                           IterationState_new(iteration_index, remaining_iterations))]
    /\ UNCHANGED <<build, varsWindow, varsCache, varsIndexing, varsLight, varsStatic, varsTimeline,
                   tp, tp_tick, tp_call, varsController, strip>>

\* updates up to tick MaxTick
TpUpdate(step) ==
    /\ tp_tick <= MaxTick
    /\ TpUpdateStep(step)

(***************************************************************************)
(* AnimationController (controller.rs).                                    *)
(***************************************************************************)
\* struct Entry
Entry(processor, handle) == [processor |-> processor, handle |-> handle]

\* AnimationController::new
AnimationController_new == [processors |-> <<>>, current_tick |-> 0]

\* AnimationController::queue_timeline
AnimationController_queue_timeline(c, timeline, handle) ==
    [c EXCEPT !.processors = Append(@, Entry(TimelineProcessor_new(timeline), handle))]

\* AnimationController::queue_animation
AnimationController_queue_animation(c, animation, handle) ==
    [c EXCEPT !.processors =
        Append(@, Entry(SingleAnimationProcessor_new(
                            TimedAnimation_new(c.current_tick, animation)), handle))]

\* AnimationController::remove_processor: find_map gives the first entry the
\* predicate holds for (hits = the positions it holds for), and that one is removed
AnimationController_remove_processor(processors, hits) ==
    IF hits = {} THEN processors ELSE RemoveAt(processors, FirstIndex(hits))

\* a stop that removes the oldest processor, whatever its handle
AnimationController_stop_animationMutOldest(c, animation_handle) ==
    [c EXCEPT !.processors = AnimationController_remove_processor(@, 1..Len(@))]

\* AnimationController::stop_animation
AnimationController_stop_animation(c, animation_handle) ==
    [c EXCEPT !.processors = AnimationController_remove_processor(
        @, {i \in 1..Len(@) : @[i].handle = animation_handle})]

\* the colorings of all processors of one controller update, in order
RECURSIVE AllWrites(_)
AllWrites(results) ==
    IF results = <<>> THEN <<>> ELSE results[1].writes \o AllWrites(Tail(results))

\* AnimationController::update: [c, writes]
AnimationController_update(c) ==
    LET results == [i \in 1..Len(c.processors) |->
                       Processor_update(c.processors[i].processor, c.current_tick)]
        updated == [i \in 1..Len(c.processors) |->
                       Entry(results[i].proc, c.processors[i].handle)]
        kept == AnimationController_remove_processor(
                    updated,
                    {i \in 1..Len(updated) : Processor_has_no_work(updated[i].processor)})
    IN  [c |-> [processors |-> kept, current_tick |-> c.current_tick + 1],
         writes |-> AllWrites(results)]

\* AnimationController::has_no_work
AnimationController_has_no_work(c) == Len(c.processors) = 0

\* the timelines queued in the controller
RECURSIVE BuildersUpTo(_)
BuildersUpTo(n) ==
    IF n = 0 THEN {DynTimelineBuilder_new}
    ELSE LET shorter == BuildersUpTo(n - 1)
         IN  shorter \cup {DynTimelineBuilder_add_animation(b, s, a) :
                             b \in shorter, s \in 0..MaxStart, a \in TestAnimations}

QueuedBuilders == BuildersUpTo(MaxQueuedEntries)

QueuedTimelines ==
    {DynTimelineBuilder_finish(b) : b \in QueuedBuilders}
      \cup {DynTimelineBuilder_finish(DynTimelineBuilder_repeating(b)) : b \in QueuedBuilders}

CtlCall(op, handle, writes) == [op |-> op, handle |-> handle, writes |-> writes]

InitControllerVars ==
    /\ ac = AnimationController_new
    /\ ac_id = 0
    /\ ac_call = CtlCall("new", 0, <<>>)

IdleController == InitControllerVars

\* AnimationController::queue_timeline; AnimationHandle::new: act_id = ID; ID += 1
AcQueueTimeline(timeline) ==
    /\ Len(ac.processors) < MaxProcessors
    /\ ac_id < MaxHandles
    /\ ac' = AnimationController_queue_timeline(ac, timeline, ac_id)
    /\ ac_id' = ac_id + 1
    /\ ac_call' = CtlCall("queue_timeline", ac_id, <<>>)
    /\ UNCHANGED <<build, varsWindow, varsCache, varsIndexing, varsLight, varsStatic, varsTimeline,
                   varsProcessor, strip>>

\* AnimationController::queue_animation
AcQueueAnimation(animation) ==
    /\ Len(ac.processors) < MaxProcessors
    /\ ac_id < MaxHandles
    /\ ac' = AnimationController_queue_animation(ac, animation, ac_id)
    /\ ac_id' = ac_id + 1
    /\ ac_call' = CtlCall("queue_animation", ac_id, <<>>)
    /\ UNCHANGED <<build, varsWindow, varsCache, varsIndexing, varsLight, varsStatic, varsTimeline,
                   varsProcessor, strip>>

\* AnimationController::stop_animation with a handle that was given out
AcStopAnimation(handle) ==
    /\ handle < ac_id
    /\ ac' = AnimationController_stop_animation(ac, handle)
    /\ ac_call' = CtlCall("stop_animation", handle, <<>>)
    /\ UNCHANGED <<build, varsWindow, varsCache, varsIndexing, varsLight, varsStatic, varsTimeline,
                   varsProcessor, ac_id, strip>>

\* AnimationController::update
AcUpdate ==
    /\ ac.current_tick <= MaxTick
    /\ LET r == AnimationController_update(ac)
       IN  /\ ac' = r.c
           /\ ac_call' = CtlCall("update", 0, r.writes)
           /\ strip' = SetColorings(strip, r.writes)
    /\ UNCHANGED <<build, varsWindow, varsCache, varsIndexing, varsLight, varsStatic, varsTimeline,
                   varsProcessor, ac_id>>

(***************************************************************************)
(* A running light swept over the strip by a processor.  Colors are the    *)
(* grays: (c, c, c) on the strip, (0, 0, v) with v in 0..100 as HSVColor,  *)
(* for which the f32 arithmetic of the two conversions comes to the        *)
(* integer quotients below.                                                *)
(***************************************************************************)
\* From<Color> for HSVColor (rgb_to_hsv): v = (c / 255 * 100) as u8
rgb_to_hsv(c) == (c * 100) \div 255

\* From<HSVColor> for Color (hsv_to_rgb): c = (v / 100 * 255) as u8
hsv_to_rgb(v) == (v * 255) \div 100

\* a / b rounded toward zero (`to_i8` of a float)
Trunc(a, b) == IF a >= 0 THEN a \div b ELSE 0 - ((0 - a) \div b)

\* calculate_with_curve with Curve::Linear: ease_with_scaled_time hands
\* time / max_time (1 beyond max_time) to HSVColor::ease, which adds
\* time * (to.v - from.v), cut to an i8, to from.v
calculate_with_curve(duration, from, to, current_tick) ==
    IF current_tick >= duration THEN to
    ELSE from + Trunc((to - from) * current_tick, duration)

\* FadeIter::map_led_idx_to_color for FadeToColor, on the strip s with the
\* fade cache `cache`: the cache it leaves, the from color it used, the color
\* it returns
FadeIter_map_led_idx_to_color(cache, s, fade, animation, general_idx, idx) ==
    LET dynamic == fade.from_color.kind = "Dynamic"
        sampled == rgb_to_hsv(s[general_idx])
        seeded == IF dynamic
                  THEN ColorCache_cache_color(cache, general_idx, sampled).cache
                  ELSE cache
        from_color == IF dynamic THEN ColorCache_load_color(seeded, general_idx)[1]
                      ELSE fade.from_color.color
        new_color == calculate_with_curve(
                         animation.fade_len + 1, from_color, fade.to_color,
                         AnimationType_animation_len(animation) - 1 - idx)
    IN  [cache |-> IF dynamic /\ idx = 0
                   THEN ColorCache_remove_cache(seeded, general_idx).cache
                   ELSE seeded,
         from |-> from_color,
         color |-> new_color]

\* the items CurveBatchIterator::next yields for the chunks of a frame: the
\* LEDs of every mapped ordinal with the progress index of its place in the chunk
RECURSIVE FrameItems(_, _, _, _)
FrameItems(range, chunks, ordinals, dbg) ==
    IF chunks = <<>> \/ ordinals = <<>> THEN <<>>
    ELSE LET chunk == Head(chunks)
             n == IF RangeLen(chunk.range) < Len(ordinals)
                  THEN RangeLen(chunk.range) ELSE Len(ordinals)
         IN  [k \in 1..n |->
                 [ids |-> Indexing_index(range, ordinals[k], dbg).ids,
                  idx |-> chunk.range[1] + k - 1]]
             \o FrameItems(range, Tail(chunks), SubSeq(ordinals, n + 1, Len(ordinals)), dbg)

\* what was done for one LED of a frame
Rendered(led, idx, sampled, before, from, color, after, buckets) ==
    [led |-> led, idx |-> idx, sampled |-> sampled, before |-> before, from |-> from,
     color |-> color, after |-> after, buckets |-> buckets]

HoldingBuckets(cache, led) ==
    IF cache = None THEN 0
    ELSE Cardinality({i \in 1..Len(cache[1]) : contains_led_id(cache[1][i], led)})

\* `for coloring in animation_step { strip.set_led_to_color(led, color.into()) }`:
\* every LED is rendered from the strip as the writes before it left it
RECURSIVE RenderItems(_, _, _, _, _)
RenderItems(items, cache, s, fade, animation) ==
    IF items = <<>> THEN [cache |-> cache, strip |-> s, rendered |-> <<>>]
    ELSE CHOOSE done \in
            {[rest EXCEPT !.rendered =
                 <<Rendered(item.ids[1], item.idx, rgb_to_hsv(s[item.ids[1]]),
                            ColorCache_load_color(cache, item.ids[1]), r.from, r.color,
                            ColorCache_load_color(r.cache, item.ids[1]),
                            HoldingBuckets(r.cache, item.ids[1]))>> \o @] :
               item \in {Head(items)},
               r \in {FadeIter_map_led_idx_to_color(
                          cache, s, fade, animation, Head(items).ids[1], Head(items).idx)},
               rest \in {RenderItems(
                            IF Len(Head(items).ids) > 1
                            THEN <<[Head(items) EXCEPT !.ids = Tail(@)]>> \o Tail(items)
                            ELSE Tail(items),
                            FadeIter_map_led_idx_to_color(
                                cache, s, fade, animation,
                                Head(items).ids[1], Head(items).idx).cache,
                            Strip_set_led_to_color(
                                s, Head(items).ids[1],
                                hsv_to_rgb(FadeIter_map_led_idx_to_color(
                                    cache, s, fade, animation,
                                    Head(items).ids[1], Head(items).idx).color)),
                            fade, animation)}} : TRUE

\* the update of a processor that holds rl in its timeline at start tick 0:
\* animate(current_tick) and every coloring written to the strip
RlUpdate(current_tick) ==
    /\ rl_call.outcome = "ok"
    /\ current_tick = (IF rl_call.made THEN rl_call.tick + 1 ELSE 1)
    /\ current_tick <= rl.duration
    /\ \E frame \in {RunningLight_animate(rl, current_tick, build = "debug")} :
       \E items \in {FrameItems(rl.range, frame.chunks, frame.ordinals, build = "debug")} :
       \E r \in {RenderItems(items, cc, strip, rl_fade, rl.animation)} :
           /\ rl_call' = [made |-> TRUE, tick |-> current_tick, outcome |-> frame.outcome,
                          rendered |-> r.rendered]
           /\ cc' = r.cache
           /\ strip' = r.strip
    /\ UNCHANGED <<build, varsWindow, cc_call, varsIndexing, rl, rl_fade, varsStatic, varsTimeline,
                   varsProcessor, varsController>>

(***************************************************************************)
(* StaticAnimation (animation/static_animation.rs): every LED of an index  *)
(* map fades from the color it had at the first render to one color.       *)
(* Colors are grays as above; the to-color is a solid color with a         *)
(* transparency of 0 or 0.5, given in percent, for which the f32           *)
(* arithmetic of blend_colors is exact.                                    *)
(***************************************************************************)
\* TransparentColor::new(HSVColor::new(0, 0, v), transparency / 100)
TransparentColor(v, transparency) == [v |-> v, transparency |-> transparency]

\* StaticAnimation::new; the fade_cache is ColorCache::new()
StaticAnimation_new(duration, range, to) ==
    [duration |-> duration, range |-> range, to |-> to]

\* blend_colors, the value channel:
\* (blend.v * (1 - transparency) + base.v * transparency) as u8
blend_colors(color, transparent_color) ==
    (transparent_color.v * (100 - transparent_color.transparency)
        + color * transparent_color.transparency) \div 100

\* range.index(i).unwrap() for i, i + 1, .., range.len() - 1: the LEDs in the
\* order they are addressed; a pair of split_mirrored gives two
RECURSIVE AddressedLeds(_, _, _)
AddressedLeds(range, i, dbg) ==
    IF i >= Indexing_len(range) THEN <<>>
    ELSE Indexing_index(range, i, dbg).ids \o AddressedLeds(range, i + 1, dbg)

\* StaticAnimation::cache_current_colors over the LEDs the range addresses
RECURSIVE StaticAnimation_cache_current_colors(_, _, _)
StaticAnimation_cache_current_colors(leds, cache, s) ==
    IF leds = <<>> THEN cache
    ELSE CHOOSE done \in
            {StaticAnimation_cache_current_colors(Tail(leds), seeded, s) :
               seeded \in {ColorCache_cache_color(
                               cache, Head(leds), rgb_to_hsv(s[Head(leds)])).cache}} : TRUE

\* MapIterator::next for one LED: the LedColoring, with the from-color it used
MapIterator_next(cache, a, current_tick, led) ==
    LET from_color == ColorCache_load_color(cache, led)[1]
        to_color == blend_colors(from_color, a.to)
    IN  [led |-> led, from |-> from_color,
         color |-> calculate_with_curve(a.duration, from_color, to_color, current_tick)]

\* an animate that fills the cache on every call
StaticAnimation_animateMutAlwaysSeeds(a, cache, s, animation_tick, dbg) ==
    LET leds == AddressedLeds(a.range, 0, dbg)
        seeded == StaticAnimation_cache_current_colors(leds, cache, s)
    IN  [cache |-> seeded,
         colorings |-> [i \in 1..Len(leds) |->
                           MapIterator_next(seeded, a, animation_tick, leds[i])]]

\* StaticAnimation::animate and the iterator it returns, consumed to its end:
\* [cache, colorings]
StaticAnimation_animate(a, cache, s, animation_tick, dbg) ==
    LET leds == AddressedLeds(a.range, 0, dbg)
        seeded == IF ColorCache_cache_size(cache) = 0
                  THEN StaticAnimation_cache_current_colors(leds, cache, s)
                  ELSE cache
    IN  [cache |-> seeded,
         colorings |-> [i \in 1..Len(leds) |->
                           MapIterator_next(seeded, a, animation_tick, leds[i])]]

NoRender == [renders |-> 0, tick |-> 0, seeded |-> <<>>, stale |-> FALSE,
             colorings |-> <<>>]

IdleStatic ==
    /\ sa = StaticAnimation_new(1, <<RangeBase(0, 0)>>, TransparentColor(0, 0))
    /\ sa_call = NoRender

\* one render call of a processor: animate(animation_tick, strip, ..) and every
\* coloring written to the strip; stale tells that the call found the strip of
\* an addressed LED under another color than the cache holds for it
SaRender(animation_tick) ==
    /\ sa_call.renders < MaxRenders
    /\ animation_tick <= sa.duration
    /\ \A i \in 0..(Indexing_len(sa.range) - 1) :    \* no unwrap() panics
          Indexing_index(sa.range, i, build = "debug").t = "Ok"
    /\ \E r \in {StaticAnimation_animate(sa, cc, strip, animation_tick, build = "debug")} :
          /\ cc' = r.cache
          /\ strip' = SetColorings(strip, [i \in 1..Len(r.colorings) |->
                                              [led |-> r.colorings[i].led,
                                               color |-> hsv_to_rgb(r.colorings[i].color)]])
          /\ sa_call' = [renders |-> sa_call.renders + 1, tick |-> animation_tick,
                         seeded |-> IF sa_call.renders = 0 THEN strip ELSE sa_call.seeded,
                         stale |-> \E i \in 1..Len(r.colorings) :
                                      rgb_to_hsv(strip[r.colorings[i].led])
                                          # r.colorings[i].from,
                         colorings |-> r.colorings]
    /\ UNCHANGED <<build, varsWindow, cc_call, varsIndexing, varsLight, varsTimeline,
                   varsProcessor, varsController, sa>>

\* Strip::set_led_to_color by another owner of the strip
SaStripWrite(led_id, color) ==
    /\ led_id \in DOMAIN strip
    /\ strip[led_id] # color
    /\ strip' = Strip_set_led_to_color(strip, led_id, color)
    /\ UNCHANGED <<build, varsWindow, varsCache, varsIndexing, varsLight, varsTimeline,
                   varsProcessor, varsController, varsStatic>>

(***************************************************************************)
(* Specifications, one per component.                                      *)
(***************************************************************************)
IdleSched ==
    /\ IdleTimeline
    /\ IdleProcessor
    /\ IdleController
    /\ strip = Strip_new

InitWindow ==
    /\ build \in Builds
    /\ InitWindowVars
    /\ IdleCache
    /\ IdleIndexing
    /\ IdleLight
    /\ IdleStatic
    /\ IdleSched

NextWindow == ArNext

SpecWindow == InitWindow /\ [][NextWindow]_vars

InitCache ==
    /\ build = "debug"
    /\ IdleWindow
    /\ InitCacheVars
    /\ IdleIndexing
    /\ IdleLight
    /\ IdleStatic
    /\ IdleSched

NextCache ==
    \/ \E led \in Leds, color \in Colors : CacheColor(led, color)
    \/ \E led \in Leds : LoadColor(led)
    \/ \E led \in Leds : RemoveCache(led)

SpecCache == InitCache /\ [][NextCache]_vars

\* the cache driven so that cache_color is only called for a LED that is not
\* cached at the time: every LED is cached at most once between two removals
CacheUncached(led, color) ==
    /\ ColorCache_load_color(cc, led) = None
    /\ CacheColor(led, color)

NextCacheOnce ==
    \/ \E led \in Leds, color \in Colors : CacheUncached(led, color)
    \/ \E led \in Leds : LoadColor(led)
    \/ \E led \in Leds : RemoveCache(led)

SpecCacheOnce == InitCache /\ [][NextCacheOnce]_vars

Cuts == 0..MaxCut

InitIndexing ==
    /\ build \in Builds
    /\ IdleWindow
    /\ IdleCache
    /\ InitIndexingVars
    /\ IdleLight
    /\ IdleStatic
    /\ IdleSched

NextIndexing ==
    \/ IxReversed
    \/ \E n \in 1..MaxNth : IxEveryNth(n)
    \/ \E k \in (0 - MaxShift)..MaxShift : IxCircular(k)
    \/ \E f \in Cuts, e \in Cuts : IxBounded(f, Indexing_len(ix_map) - e)
    \/ \E ft \in {"Relative", "Absolute", "None"}, et \in {"Relative", "None"}, o \in 1..MaxCut :
          IxFromBounds(Bound(ft, IF ft = "None" THEN 0 ELSE o),
                       Bound(et, IF et = "None" THEN 0 ELSE o))
    \/ \E lower \in BOOLEAN, u \in UnevenBehavior : IxSplitIntoHalf(lower, u)
    \/ \E u \in UnevenBehavior : IxSplitMirrored(u)
    \/ \E i \in 0..MaxOrd : IxIndex(i)

SpecIndexing == InitIndexing /\ [][NextIndexing]_vars

\* Maps bounded by ranges of every form.
StartBounds == {CoreBound("Included", a) : a \in 0..MaxCut} \cup {CoreBound("Unbounded", 0)}

EndBounds ==
    {CoreBound(t, o) : t \in {"Included", "Excluded"}, o \in 0..MaxBaseLen}
        \cup {CoreBound("Unbounded", 0)}

NextFromRange ==
    \/ IxReversed
    \/ \E start_bound \in StartBounds, end_bound \in EndBounds :
          IxFromRange(start_bound, end_bound)
    \/ \E i \in 0..MaxOrd : IxIndex(i)

SpecFromRange == InitIndexing /\ [][NextFromRange]_vars

InitSched ==
    /\ build = "debug"
    /\ IdleWindow
    /\ IdleCache
    /\ IdleIndexing
    /\ IdleLight
    /\ IdleStatic
    /\ IdleSched

NextBuilder ==
    \/ \E start \in 0..MaxStart, animation \in TestAnimations : TlAddAnimation(start, animation)
    \/ TlRepeating
    \/ TlFinish

NextTimeline ==
    \/ NextBuilder
    \/ \E t \in 0..MaxTick : TlGetCurrentEntries(t)
    \/ \E t \in 0..MaxTick : TlHasFinished(t)

SpecTimeline == InitSched /\ [][NextTimeline]_vars

\* A timeline whose animations differ in length by more than their start ticks, so
\* that an animation can outlast the one that starts last.
UnevenAnimations == {TestAnimation(d, 0, 1) : d \in 1..MaxUnevenDur}

NextTimelineUneven ==
    \/ \E start \in 0..MaxStart, animation \in UnevenAnimations :
          TlAddAnimation(start, animation)
    \/ TlRepeating
    \/ TlFinish
    \/ \E t \in 0..MaxTick : TlGetCurrentEntries(t)
    \/ \E t \in 0..MaxTick : TlHasFinished(t)

SpecTimelineUneven == InitSched /\ [][NextTimelineUneven]_vars

NextProcessor ==
    \/ NextBuilder
    \/ TpNew
    \/ \E step \in 1..MaxStep : TpUpdate(step)

SpecProcessor == InitSched /\ [][NextProcessor]_vars

\* the processor, and IterationState::new called with any counts
IterationCounts == {0, 1, 2, U32Max}

NextIteration ==
    \/ NextProcessor
    \/ \E iteration_index, remaining_iterations \in IterationCounts :
          AmNew(iteration_index, remaining_iterations)

SpecIteration == InitSched /\ [][NextIteration]_vars

NextController ==
    \/ \E timeline \in QueuedTimelines : AcQueueTimeline(timeline)
    \/ \E animation \in TestAnimations : AcQueueAnimation(animation)
    \/ \E handle \in 0..(MaxHandles - 1) : AcStopAnimation(handle)
    \/ AcUpdate

SpecController == InitSched /\ [][NextController]_vars

InitLight ==
    /\ build \in Builds
    /\ IdleWindow
    /\ IdleCache
    /\ IdleIndexing
    /\ InitLightVars
    /\ IdleStatic
    /\ IdleSched

NextLight == \E t \in 0..MaxDuration : t <= rl.duration /\ RlAnimate(t)

SpecLight == InitLight /\ [][NextLight]_vars

\* Clamp-mode lights with start offset 0 over longer ranges, where the jump
\* counts reach the values the f32 scaling does not return at tick = duration.
InitLightClamp ==
    /\ build \in Builds
    /\ IdleWindow
    /\ IdleCache
    /\ IdleIndexing
    /\ \E duration \in 1..MaxDuration, n \in 1..MaxClampLen, f \in 0..MaxFade :
          rl = RunningLight_new(duration, <<RangeBase(0, n)>>, 0, FALSE, FadeToColor(f))
    /\ rl_call = NoFrame
    /\ rl_fade = NoFade
    /\ IdleStatic
    /\ IdleSched

SpecLightClamp == InitLightClamp /\ [][NextLight]_vars

\* A light with Dynamic from-coloring on a strip of grays, updated with the
\* ticks 1, 2, .. of its duration
StripGrays == {0, 125, 255}
ToColors == {0, 100}

InitSweep ==
    /\ build \in Builds
    /\ IdleWindow
    /\ IdleCache
    /\ IdleIndexing
    /\ IdleTimeline
    /\ IdleProcessor
    /\ IdleController
    /\ \E duration \in 1..MaxDuration, n \in 1..MaxSweepLen, circle \in BOOLEAN,
          f \in 0..MaxSweepFade :
          /\ rl = RunningLight_new(duration, <<RangeBase(0, n)>>, 0, circle, FadeToColor(f))
          /\ strip \in [0..(n - 1) -> StripGrays]
    /\ rl_call = [made |-> FALSE, tick |-> 0, outcome |-> "ok", rendered |-> <<>>]
    /\ \E to_color \in ToColors : rl_fade = Fade(Dynamic, to_color)
    /\ IdleStatic

NextSweep == \E t \in 1..MaxDuration : RlUpdate(t)

SpecSweep == InitSweep /\ [][NextSweep]_vars

\* A StaticAnimation over a strip of grays that other writers change between
\* its render calls.
StaticRanges(n) ==
    {<<RangeBase(0, n)>>, <<RangeBase(0, n), ReversedIndexed>>,
     <<RangeBase(0, n), EveryNthIndexed(2)>>}
        \cup {<<RangeBase(0, n), SplitMirroredIndexed(u)>> : u \in UnevenBehavior}

InitStatic ==
    /\ build = "debug"
    /\ IdleWindow
    /\ IdleCache
    /\ IdleIndexing
    /\ IdleLight
    /\ IdleTimeline
    /\ IdleProcessor
    /\ IdleController
    /\ \E n \in 1..MaxSweepLen, transparency \in {0, 50} :
          /\ strip \in [0..(n - 1) -> StripGrays]
          /\ \E range \in StaticRanges(n) :
                sa = StaticAnimation_new(MaxDur, range, TransparentColor(100, transparency))
    /\ sa_call = NoRender

NextStatic ==
    \/ \E t \in 1..MaxDur : SaRender(t)
    \/ \E led_id \in 0..(MaxSweepLen - 1), color \in StripGrays : SaStripWrite(led_id, color)

SpecStatic == InitStatic /\ [][NextStatic]_vars

\* The scheduler scenario: a non-repeating timeline of two different animations
\* of 5 ticks each, at the start ticks 0 and 10 (added in either order), and a
\* TimelineProcessor over it that is updated with the ticks 0, 1, 2, ..
ScenarioAnimations == {TestAnimation(5, l, c) : l \in StripLeds, c \in Colors}

InitScenario ==
    /\ build = "debug"
    /\ IdleWindow
    /\ IdleCache
    /\ IdleIndexing
    /\ IdleLight
    /\ IdleStatic
    /\ IdleController
    /\ strip = Strip_new
    /\ \E first \in ScenarioAnimations, second \in ScenarioAnimations :
          /\ first # second
          /\ \/ tlb = DynTimelineBuilder_add_animation(
                          DynTimelineBuilder_add_animation(DynTimelineBuilder_new, 0, first),
                          10, second)
             \/ tlb = DynTimelineBuilder_add_animation(
                          DynTimelineBuilder_add_animation(DynTimelineBuilder_new, 10, second),
                          0, first)
    /\ tl = Some(DynTimelineBuilder_finish(tlb))
    /\ tl_query = NoQuery
    /\ tp = Some(TimelineProcessor_new(tl[1]))
    /\ tp_tick = 0
    /\ tp_call = NoUpdate
    /\ am = NoMeta

TpUpdateInOrder ==
    /\ tp_tick <= MaxOrderedTick
    /\ TpUpdateStep(1)

NextScenario == TpUpdateInOrder

SpecScenario == InitScenario /\ [][NextScenario]_vars

\* a TimelineProcessor over any timeline of the builder, updated with the ticks
\* 0, 1, 2, .. for as long as the caller keeps updating
NextProcessorInOrder ==
    \/ tp = None /\ NextBuilder
    \/ TpNew
    \/ TpUpdateInOrder

\* The caller keeps updating: the steps of NextProcessorInOrder that advance
\* the tick are the steps of TpUpdateInOrder, which is enabled whenever there is
\* a processor and a tick left.
TpTickAdvances ==
    /\ tp # None
    /\ tp_tick <= MaxOrderedTick
    /\ tp_tick' = tp_tick + 1

SpecProcessorInOrder ==
    InitSched /\ [][NextProcessorInOrder]_vars /\ WF_tp_tick(TpTickAdvances)

\* the controller with timelines of two entries that run for MaxDur ticks, so
\* that animations of one timeline and of two processors are active together
OverlapAnimations == {a \in TestAnimations : Animation_duration(a) = MaxDur}

OverlapTimelines ==
    {DynTimelineBuilder_finish(
         DynTimelineBuilder_add_animation(
             DynTimelineBuilder_add_animation(DynTimelineBuilder_new, s1, a1), s2, a2)) :
       s1 \in 0..MaxStart, s2 \in 0..MaxStart, a1 \in OverlapAnimations, a2 \in OverlapAnimations}

NextControllerOverlap ==
    \/ \E timeline \in OverlapTimelines : AcQueueTimeline(timeline)
    \/ AcUpdate

SpecControllerOverlap == InitSched /\ [][NextControllerOverlap]_vars

(***************************************************************************)
(* Properties of the window iterator.                                      *)
(***************************************************************************)
W0 == ar.active_animation_len
L0 == ar.general_animation_len

RECURSIVE SumLen(_)
SumLen(chunks) ==
    IF chunks = <<>> THEN 0 ELSE RangeLen(Head(chunks).range) + SumLen(Tail(chunks))

\* the window positions the chunks hold, in order
Positions(chunks) == [i \in 1..Len(WindowItems(chunks)) |-> WindowItems(chunks)[i].pos]

\* the sub-ranges, concatenated in order, are exactly 0, 1, .., W-1
PartitionsWindow(chunks) ==
    /\ SumLen(chunks) = W0
    /\ Positions(chunks) = [i \in 1..W0 |-> i - 1]

\* the window positions that fall inside [0, L), in increasing order
RECURSIVE InsideItems(_)
InsideItems(p) ==
    IF p >= W0 THEN <<>>
    ELSE (IF 0 <= ar_anchor0 + p /\ ar_anchor0 + p < L0
          THEN <<[pos |-> p, ordinal |-> ar_anchor0 + p]>> ELSE <<>>)
         \o InsideItems(p + 1)

C9_WrapAssignsModL ==
    (/\ ar.border_type = "WrappingStartEnd"
     /\ 1 <= W0 /\ W0 <= L0
     /\ 0 - W0 <= ar_anchor0 /\ ar_anchor0 <= L0)
    => /\ ar_status # "panic"
       /\ Len(ar_chunks) <= 2
       /\ ar_status = "done" =>
            WindowItems(ar_chunks) =
                [i \in 1..W0 |-> [pos |-> i - 1, ordinal |-> (ar_anchor0 + i - 1) % L0]]

\* L=7, W=4, anchor=-2 gave {anchor 5, 0..2} then {anchor 0, 2..4}
C9_Witness ==
    /\ ar_status = "done"
    /\ ar.border_type = "WrappingStartEnd"
    /\ L0 = 7 /\ W0 = 4 /\ ar_anchor0 = 0 - 2
    /\ ar_chunks = <<AnchoredRange(5, <<0, 2>>), AnchoredRange(0, <<2, 4>>)>>

\* C10: under Clamp with 1 <= W <= L and anchor in [-W, L] exactly one chunk is
\* emitted, then the sequence ends; the chunk holds exactly the positions p with
\* 0 <= anchor + p < L, each mapped to ordinal anchor + p.
C10_ClampOneChunk ==
    (/\ ar.border_type = "ClosedStartEnd"
     /\ 1 <= W0 /\ W0 <= L0
     /\ 0 - W0 <= ar_anchor0 /\ ar_anchor0 <= L0)
    => /\ ar_status # "panic"
       /\ Len(ar_chunks) <= 1
       /\ ar_status = "done" =>
            /\ Len(ar_chunks) = 1
            /\ WindowItems(ar_chunks) = InsideItems(0)

\* L=7, W=5, anchor=-2 gave only {anchor 0, 2..5}
C10_Witness ==
    /\ ar_status = "done"
    /\ ar.border_type = "ClosedStartEnd"
    /\ L0 = 7 /\ W0 = 5 /\ ar_anchor0 = 0 - 2
    /\ ar_chunks = <<AnchoredRange(0, <<2, 5>>)>>

(***************************************************************************)
(* Properties of the color cache.                                          *)
(***************************************************************************)
Buckets == IF cc = None THEN <<>> ELSE cc[1]

BucketsHolding(led) == {i \in 1..Len(Buckets) : contains_led_id(Buckets[i], led)}

\* C2: after any sequence of cache_color and remove_cache calls every LED id is
\* contained in at most one color bucket.
C2_AtMostOneBucket ==
    \A led \in Leds : Cardinality(BucketsHolding(led)) <= 1

\* C3: cache_color(led, c) on a LED that is already cached, under c or under any
\* other color, returns the color it is cached under and does not mutate the
\* cache: cache_size and load_color of every LED are as before the call.
C3_RecacheIsNoOp ==
    [][(/\ cc_call'.op = "cache_color"
        /\ ColorCache_load_color(cc, cc_call'.led) # None)
       => /\ cc_call'.ret = ColorCache_load_color(cc, cc_call'.led)
          /\ ColorCache_cache_size(cc') = ColorCache_cache_size(cc)
          /\ \A l \in Leds : ColorCache_load_color(cc', l) = ColorCache_load_color(cc, l)]_vars

(***************************************************************************)
(* Properties of the index maps.                                           *)
(***************************************************************************)
\* C7: for every index map and every ordinal i >= len(), index(i) returns an
\* error value and never a LED id (nor a panic).
C7_OutOfDomainIsError ==
    (ix_call.made /\ ix_call.index >= Indexing_len(ix_map)) => ix_call.res.t = "Err"

\* C8: for every map made by nesting the combinators over a base range or
\* array, index(i) succeeds for every ordinal i in [0, len()).
C8_InDomainSucceeds ==
    (ix_call.made /\ ix_call.index < Indexing_len(ix_map)) => ix_call.res.t = "Ok"

\* (1..5).reversed().split_mirrored(Exclude).index(1) = LEDs 3 and 2
C8_Witness ==
    /\ ix_map = <<RangeBase(1, 5), ReversedIndexed, SplitMirroredIndexed("Exclude")>>
    /\ ix_call = [made |-> TRUE, index |-> 1, res |-> Ok(<<3, 2>>)]

(***************************************************************************)
(* Properties of the scheduler.                                            *)
(***************************************************************************)
\* the elements of a set of numbers in increasing order
RECURSIVE Ascending(_)
Ascending(S) ==
    IF S = {} THEN <<>>
    ELSE LET m == CHOOSE x \in S : \A y \in S : x <= y
         IN  <<m>> \o Ascending(S \ {m})

\* the positions of the entries whose [start, start + duration) contains t
ActiveHalfOpen(timeline, t) ==
    {i \in 1..Len(timeline.entries) :
        /\ timeline.entries[i].at_tick <= t
        /\ t < timeline.entries[i].at_tick
                 + Animation_duration(timeline.entries[i].animation)}

\* C4: get_current_entries(t) yields exactly the entries whose half-open
\* interval [start, start + duration) contains t, each once and in start order.
C4_CurrentEntriesHalfOpen ==
    tl_query.op = "get_current_entries" =>
        tl_query.entries = Ascending(ActiveHalfOpen(tl[1], tl_query.tick))

\* C5: after every AnimationController.update no processor that remains in
\* the controller reports no work.
C5_NoFinishedProcessorRemains ==
    ac_call.op = "update" =>
        \A i \in 1..Len(ac.processors) : ~Processor_has_no_work(ac.processors[i].processor)

\* C6: once a TimelineProcessor has found its timeline finished, has_no_work()
\* stays true, and neither the update that marks it finished nor any later
\* update writes a color to the strip.
C6_FinishedDoesNoWork ==
    [][(tp # None /\ tp' # None) =>
          /\ tp[1].no_work => tp'[1].no_work
          /\ (tp_call' # tp_call /\ tp'[1].no_work) => tp_call'.writes = <<>>]_vars

(***************************************************************************)
(* More properties of the window iterator.                                 *)
(***************************************************************************)
\* C11: with W <= L, for every border policy and every anchor, no step of the
\* enumeration reaches the unimplemented branch for a window that starts
\* below 0 and ends beyond L.
C11_BothOutsideNeedsLongWindow ==
    W0 <= L0 => ~UnhandledBothOutside(ar, build = "debug")

\* W = L = 5 wrapped from anchor -3: two chunks, then the end of the sequence
C11_Witness ==
    /\ ar.border_type = "WrappingStartEnd"
    /\ W0 = 5 /\ L0 = 5 /\ ar_anchor0 = -3
    /\ Len(ar_chunks) = 2
    /\ ar_status = "done"

(***************************************************************************)
(* Properties of the running light.                                        *)
(***************************************************************************)
RlW == AnimationType_animation_len(rl.animation)
RlL == Indexing_len(rl.range)

\* C12: a RunningLight whose window is longer than its index map is rejected
\* at construction, so no frame at a tick in [0, duration] of a light that
\* RunningLight::new built fails in the window case that starts below 0 and
\* ends beyond L.
C12_NoBothOutsideMidRender ==
    rl_call.made => rl_call.outcome # "both_outside"

(***************************************************************************)
(* More properties of the color cache.                                     *)
(***************************************************************************)
\* the number of buckets of `cache` that hold led
HoldingIn(cache, led) ==
    IF cache = None THEN 0
    ELSE Cardinality({i \in 1..Len(cache[1]) : contains_led_id(cache[1][i], led)})

\* C13: cache_color(led, c) on a LED that is not cached returns none, and
\* afterwards load_color(led) = c and cache_size() is one larger than before.
C13_CacheUncachedAddsOne ==
    [][(/\ cc_call'.op = "cache_color"
        /\ ColorCache_load_color(cc, cc_call'.led) = None)
       => /\ cc_call'.ret = None
          /\ ColorCache_load_color(cc', cc_call'.led) = Some(cc_call'.color)
          /\ ColorCache_cache_size(cc') = ColorCache_cache_size(cc) + 1]_vars

\* LED 2 was cached after 0 and 1 and extended their range at its end
C13_Witness ==
    /\ cc = Some(<<[ranges |-> << <<0, 3>> >>, single_led |-> <<>>, color |-> 1]>>)
    /\ cc_call = Call("cache_color", 2, 1, None)

\* C14: in a cache built by caching only LEDs that are not cached, interleaved
\* with removals, remove_cache(led) on a cached LED returns its color and removes
\* exactly that LED: load_color(led) is then not-found, cache_size() is one
\* smaller and load_color of every other LED is as before.
C14_RemoveCachedRemovesOne ==
    [][(/\ cc_call'.op = "remove_cache"
        /\ ColorCache_load_color(cc, cc_call'.led) # None)
       => /\ cc_call'.ret = ColorCache_load_color(cc, cc_call'.led)
          /\ ColorCache_load_color(cc', cc_call'.led) = None
          /\ ColorCache_cache_size(cc') = ColorCache_cache_size(cc) - 1
          /\ \A l \in Leds \ {cc_call'.led} :
                ColorCache_load_color(cc', l) = ColorCache_load_color(cc, l)]_vars

\* LED 1 was removed from the inside of the range 0..4: 0 became a single
C14_Witness ==
    /\ cc = Some(<<[ranges |-> << <<2, 4>> >>, single_led |-> <<0>>, color |-> 1]>>)
    /\ cc_call = Call("remove_cache", 1, 0, Some(1))

\* C15: once an uncached LED x has been cached with color c, load_color(x)
\* returns c, and it keeps returning c over every later cache_color and
\* remove_cache call for another LED: caching x puts it into exactly one bucket,
\* and a call for another LED keeps it there with its color.
C15_OtherLedsKeepColor ==
    [][\A x \in Leds :
          /\ (/\ cc_call'.op = "cache_color"
              /\ cc_call'.led = x
              /\ ColorCache_load_color(cc, x) = None)
             => /\ ColorCache_load_color(cc', x) = Some(cc_call'.color)
                /\ HoldingIn(cc', x) = 1
          /\ (/\ cc_call'.op \in {"cache_color", "remove_cache"}
              /\ cc_call'.led # x
              /\ HoldingIn(cc, x) = 1)
             => /\ ColorCache_load_color(cc', x) = ColorCache_load_color(cc, x)
                /\ HoldingIn(cc', x) = 1]_vars

\* LED 1 keeps color 1 while LED 2 is cached under color 2 and removed again
C15_Witness ==
    /\ cc = Some(<<[ranges |-> <<>>, single_led |-> <<1>>, color |-> 1],
                   [ranges |-> <<>>, single_led |-> <<>>, color |-> 2]>>)
    /\ cc_call = Call("remove_cache", 2, 0, Some(2))

\* C16: load_color(led) and remove_cache(led) on a LED that is not cached, also
\* on a cache that was never written, return not-found and leave the cache
\* unchanged: cache_size and load_color of every LED are as before.
C16_UncachedIsNotFound ==
    [][(/\ cc_call'.op \in {"load_color", "remove_cache"}
        /\ ColorCache_load_color(cc, cc_call'.led) = None)
       => /\ cc_call'.ret = None
          /\ ColorCache_cache_size(cc') = ColorCache_cache_size(cc)
          /\ \A l \in Leds : ColorCache_load_color(cc', l) = ColorCache_load_color(cc, l)]_vars

\* remove_cache(1) on a cache that holds LED 0 only
C16_Witness ==
    /\ cc = Some(<<[ranges |-> <<>>, single_led |-> <<0>>, color |-> 1]>>)
    /\ cc_call = Call("remove_cache", 1, 0, None)

\* two ranges overlap or are adjacent: no id lies strictly between them
RangesTouch(a, b) == a[1] <= b[2] /\ b[1] <= a[2]

\* C17: after any sequence of cache_color and remove_cache calls the ranges of
\* every bucket are maximal: no two ranges overlap or are adjacent, no single id
\* is adjacent to a range, and no two single ids are adjacent.
C17_RangesMaximal ==
    \A b \in 1..Len(Buckets) :
        LET sc == Buckets[b]
        IN  /\ \A i, j \in 1..Len(sc.ranges) :
                  i # j => ~RangesTouch(sc.ranges[i], sc.ranges[j])
            /\ \A i \in 1..Len(sc.ranges), j \in 1..Len(sc.single_led) :
                  ~RangesTouch(sc.ranges[i], <<sc.single_led[j], sc.single_led[j] + 1>>)
            /\ \A i, j \in 1..Len(sc.single_led) :
                  i # j => Abs(sc.single_led[i] - sc.single_led[j]) > 1

(***************************************************************************)
(* More properties of the scheduler.                                       *)
(***************************************************************************)
\* the writes of rendering only the entry at position i of the timeline of tp
OnlyEntry(i) == Animation_animate(tp[1].timeline.entries[i].animation, 0)

\* C18: over a non-repeating timeline with two animations of duration 5 at the
\* start ticks 0 and 10, a TimelineProcessor updated with the ticks 0, 1, 2, ..
\* renders only the first animation at tick 3, only the second at tick 12, and
\* reports no work at tick 20.
C18_TwoAnimationScenario ==
    tp_call.made =>
        /\ tp_call.tick = 3 => tp_call.writes = OnlyEntry(1)
        /\ tp_call.tick = 12 => tp_call.writes = OnlyEntry(2)
        /\ tp_call.tick = 20 => tp[1].no_work

\* the update at tick 20 of a timeline whose builder got the later animation first
C18_Witness ==
    /\ tp_call.made /\ tp_call.tick = 20
    /\ tp[1].no_work
    /\ tlb.animations[1].at_tick = 10
    /\ tp[1].timeline.entries[1].at_tick = 0
    /\ tp_call.writes = <<>>

\* C19: a TimelineProcessor over a repeating timeline never reports no work:
\* has_no_work() is false after every update, and an update that finds the
\* timeline finished starts the next iteration at that tick instead.
C19_RepeatingNeverFinishes ==
    [][(/\ tp # None
        /\ tp[1].timeline.repeating
        /\ tp_tick' # tp_tick)
       => /\ ~Processor_has_no_work(tp'[1])
          /\ tp_call'.found_finished
                => /\ tp'[1].iteration_index = tp[1].iteration_index + 1
                   /\ tp'[1].tick_offset = tp_tick]_vars

\* a repeating timeline with an entry, in its second iteration or later
C19_Witness ==
    /\ tp # None
    /\ tp[1].timeline.repeating
    /\ tp[1].timeline.entries # <<>>
    /\ tp_call.made /\ tp_call.found_finished
    /\ tp[1].iteration_index >= 1
    /\ ~Processor_has_no_work(tp[1])

UpdatedProcessor(i) == Processor_update(ac.processors[i].processor, ac.current_tick).proc

\* the entries the processor at position i renders in the update of current_tick
ActiveEntries(i) ==
    LET p == ac.processors[i].processor
    IN  IF p.kind = "timeline"
        THEN LET current == DynTimeline_get_current_entries(
                                p.timeline, ac.current_tick - UpdatedProcessor(i).tick_offset)
             IN  {current[k] : k \in 1..Len(current)}
        ELSE {j \in {1} : Processor_update(p, ac.current_tick).writes # <<>>}

EntryAnimation(i, j) ==
    LET p == ac.processors[i].processor
    IN  IF p.kind = "timeline" THEN p.timeline.entries[j].animation ELSE p.animation.animation

\* <<processor position, entry position>> of the animations that color led in
\* the update of current_tick
Writers(led) ==
    {w \in (1..Len(ac.processors)) \X (1..MaxEntries) :
        w[2] \in ActiveEntries(w[1]) /\ EntryAnimation(w[1], w[2]).led = led}

\* the writer that comes last: latest processor, in it the latest entry
LastWriter(led) ==
    CHOOSE w \in Writers(led) :
        \A v \in Writers(led) : v[1] < w[1] \/ (v[1] = w[1] /\ v[2] <= w[2])

\* C21: within one tick the writes reach the strip in processor registration
\* order and, inside a processor, in timeline start order: processors stand in
\* the order of their handles, entries in the order of their start ticks, and
\* after the update every LED that was written holds the color of its last
\* writer in that order (every other LED keeps its color).
C21_LastWriterWins ==
    [][(ac_call'.op = "update" /\ ac'.current_tick = ac.current_tick + 1)
       => /\ \A i, j \in 1..Len(ac.processors) :
                i < j => ac.processors[i].handle < ac.processors[j].handle
          /\ \A i \in 1..Len(ac.processors) :
                ac.processors[i].processor.kind = "timeline" =>
                    LET e == ac.processors[i].processor.timeline.entries
                    IN  \A j, k \in 1..Len(e) : j < k => e[j].at_tick <= e[k].at_tick
          /\ \A led \in StripLeds :
                strip'[led] = IF Writers(led) = {} THEN strip[led]
                              ELSE EntryAnimation(LastWriter(led)[1], LastWriter(led)[2]).color]_vars

\* an update in which two processors, two entries each, colored LED 0 four
\* times: first with color 1, last with color 2
C21_Witness ==
    /\ ac_call.op = "update"
    /\ Len(ac_call.writes) = 4
    /\ \A k \in 1..4 : ac_call.writes[k].led = 0
    /\ ac_call.writes[1].color = 1
    /\ ac_call.writes[3].color = 1
    /\ ac_call.writes[4].color = 2
    /\ strip[0] = 2

\* the positions of the processors registered under handle
RegisteredUnder(handle) == {i \in 1..Len(ac.processors) : ac.processors[i].handle = handle}

RECURSIVE OtherProcessors(_, _)
OtherProcessors(processors, handle) ==
    IF processors = <<>> THEN <<>>
    ELSE (IF processors[1].handle = handle THEN <<>> ELSE <<processors[1]>>)
         \o OtherProcessors(Tail(processors), handle)

\* C22: stop_animation(handle) removes the processor registered under that
\* handle and no other, the remaining processors keep their order, and for a
\* handle no processor is registered under (stopped before, or finished and
\* discarded) the controller stays as it is.
C22_StopRemovesOnlyThatProcessor ==
    [][ac_call'.op = "stop_animation"
       => /\ Cardinality(RegisteredUnder(ac_call'.handle)) <= 1
          /\ ac'.processors = OtherProcessors(ac.processors, ac_call'.handle)
          /\ RegisteredUnder(ac_call'.handle) = {} => ac' = ac
          /\ ac'.current_tick = ac.current_tick
          /\ strip' = strip]_vars

\* before any update, of the processors 0 and 1 the first was stopped and the
\* second is still there
C22_Witness ==
    /\ ac_call.op = "stop_animation"
    /\ ac_call.handle = 0
    /\ ac.current_tick = 0
    /\ ac_id = 2
    /\ Len(ac.processors) = 1
    /\ ac.processors[1].handle = 1

(***************************************************************************)
(* More properties of the index maps.                                      *)
(***************************************************************************)
\* the combinator ix_map was wrapped in last is of this kind
OutermostIs(kind) == Len(ix_map) > 1 /\ Outer(ix_map).kind = kind

\* M.index(i) of the map M that ix_map wraps
InnerIndex(i) == Indexing_index(Inner(ix_map), i, build = "debug")

\* index(i) of ix_map itself
MapIndex(i) == Indexing_index(ix_map, i, build = "debug")

\* C23: for every map M and every ordinal i in [0, M.len()),
\* reversed(M).index(i) = M.index(M.len() - 1 - i), and
\* reversed(M).len() = M.len().
C23_ReversedMirrorsOrdinals ==
    OutermostIs("reversed") =>
        /\ Indexing_len(ix_map) = Indexing_len(Inner(ix_map))
        /\ \A i \in 0..(Indexing_len(Inner(ix_map)) - 1) :
              MapIndex(i) = InnerIndex(Indexing_len(Inner(ix_map)) - 1 - i)

\* (1..5).circular(1).reversed().index(0) = LED 1, the last of 2, 3, 4, 1
C23_Witness ==
    /\ ix_map = <<RangeBase(1, 5), CircularIndexed(1), ReversedIndexed>>
    /\ ix_call = [made |-> TRUE, index |-> 0, res |-> Ok(<<1>>)]

\* C24: for every map M, every offset k (positive or negative) with
\* |k| < M.len() and every ordinal i in [0, M.len()),
\* circular(M, k).index(i) = M.index((i + k) mod M.len()) with the
\* non-negative modulus; no circular map with |k| >= M.len() gets constructed.
C24_CircularShiftsModLen ==
    OutermostIs("circular") =>
        LET k == Outer(ix_map).offset
            len == Indexing_len(Inner(ix_map))
        IN  /\ Abs(k) < len
            /\ Indexing_len(ix_map) = len
            /\ \A i \in 0..(len - 1) : MapIndex(i) = InnerIndex((i + k) % len)

\* (1..5).circular(-1).index(0) = LED 4: one step back from the first ordinal
C24_Witness ==
    /\ ix_map = <<RangeBase(1, 5), CircularIndexed(0 - 1)>>
    /\ ix_call = [made |-> TRUE, index |-> 0, res |-> Ok(<<4>>)]

\* the ordinals a bounded sub-range drops at the start of a map: the front
\* bound, absolute or relative
DroppedFront(c) == IF c.front.t = "None" THEN 0 ELSE c.front.o

\* the ordinals it drops at the end of a map of len ordinals: a relative end
\* bound counts them, an absolute one is the last ordinal that is kept
DroppedEnd(c, len) ==
    CASE c.end.t = "None" -> 0
      [] c.end.t = "Relative" -> c.end.o
      [] c.end.t = "Absolute" -> len - 1 - c.end.o

\* C25: a bounded sub-range of M that drops `front` ordinals at the start and
\* `end` ordinals at the end has len() = M.len() - front - end and
\* index(i) = M.index(i + front) for every i < len(); index(0) = M.index(front).
C25_BoundedDropsFrontAndEnd ==
    OutermostIs("bounded") =>
        LET c == Outer(ix_map)
            front == DroppedFront(c)
            end == DroppedEnd(c, Indexing_len(Inner(ix_map)))
        IN  /\ Indexing_len(ix_map) = Indexing_len(Inner(ix_map)) - front - end
            /\ \A i \in 0..(Indexing_len(ix_map) - 1) : MapIndex(i) = InnerIndex(i + front)

\* (1..5).bounded(1..3).index(0) = LED 2: the first ordinal and the last one dropped
C25_Witness ==
    /\ ix_map = <<RangeBase(1, 5), BoundedIndexed(Bound("Absolute", 1), Bound("Absolute", 2))>>
    /\ Indexing_len(ix_map) = 2
    /\ ix_call = [made |-> TRUE, index |-> 0, res |-> Ok(<<2>>)]

\* C26: for split_mirrored(M, policy) and every i < len(), index(i) is exactly
\* the pair (M.index(i), M.index(M.len() - 1 - i)) in that order; len() is
\* M.len() / 2 for even M.len(), the floor of it under Exclude and the ceiling
\* under ToLower and ToUpper for odd M.len(); index(len()) is NotInMappingRange.
C26_SplitMirroredPairs ==
    OutermostIs("split_mirrored") =>
        LET n == Indexing_len(Inner(ix_map))
            len == Indexing_len(ix_map)
        IN  /\ len = IF n % 2 = 0 \/ Outer(ix_map).uneven = "Exclude"
                     THEN n \div 2 ELSE n \div 2 + 1
            /\ \A i \in 0..(len - 1) :
                  /\ InnerIndex(i).t = "Ok"
                  /\ InnerIndex(n - 1 - i).t = "Ok"
                  /\ MapIndex(i) = Ok(<<InnerIndex(i).ids[1], InnerIndex(n - 1 - i).ids[1]>>)
            /\ MapIndex(len) = Err("NotInMappingRange")

\* (1..4).reversed().split_mirrored(ToUpper): 2 pairs for 3 LEDs; index(0) is
\* the pair (3, 1) and the middle ordinal yields LED 2 twice
C26_Witness ==
    /\ ix_map = <<RangeBase(1, 4), ReversedIndexed, SplitMirroredIndexed("ToUpper")>>
    /\ Indexing_len(ix_map) = 2
    /\ MapIndex(0) = Ok(<<3, 1>>)
    /\ ix_call = [made |-> TRUE, index |-> 1, res |-> Ok(<<2, 2>>)]

\* the two halves split_into_half makes of the map that ix_map wraps
LowerHalf == Append(Inner(ix_map), HalfIndexed(TRUE, Outer(ix_map).uneven))
UpperHalf == Append(Inner(ix_map), HalfIndexed(FALSE, Outer(ix_map).uneven))

\* the ordinals of M that a half reaches with its own ordinals
LowerOrdinals == 0..(Indexing_len(LowerHalf) - 1)
UpperOrdinals ==
    (Indexing_len(Inner(ix_map)) - Indexing_len(UpperHalf))..(Indexing_len(Inner(ix_map)) - 1)

\* C27: split_into_half(M, policy) yields two disjoint contiguous slices of M:
\* lower.index(i) = M.index(i), upper.index(i) = M.index(M.len() - upper.len() + i),
\* and together they cover every ordinal of M exactly once, except that for odd
\* M.len() under Exclude the middle ordinal is in neither half (ToLower gives
\* it to the lower half, ToUpper to the upper half).
C27_HalvesPartition ==
    OutermostIs("half") =>
        LET n == Indexing_len(Inner(ix_map))
            u == Outer(ix_map).uneven
            middle == n \div 2
        IN  /\ \A i \in 0..(Indexing_len(LowerHalf) - 1) :
                  Indexing_index(LowerHalf, i, build = "debug") = InnerIndex(i)
            /\ \A i \in 0..(Indexing_len(UpperHalf) - 1) :
                  Indexing_index(UpperHalf, i, build = "debug")
                      = InnerIndex(n - Indexing_len(UpperHalf) + i)
            /\ LowerOrdinals \cap UpperOrdinals = {}
            /\ LowerOrdinals \cup UpperOrdinals
                  = IF n % 2 # 0 /\ u = "Exclude" THEN (0..(n - 1)) \ {middle} ELSE 0..(n - 1)
            /\ (n % 2 # 0 /\ u = "ToLower") => middle \in LowerOrdinals
            /\ (n % 2 # 0 /\ u = "ToUpper") => middle \in UpperOrdinals

\* the upper half of (1..4) under ToUpper holds the middle LED: index(0) = LED 2
C27_Witness ==
    /\ ix_map = <<RangeBase(1, 4), HalfIndexed(FALSE, "ToUpper")>>
    /\ Indexing_len(ix_map) = 2
    /\ ix_call = [made |-> TRUE, index |-> 0, res |-> Ok(<<2>>)]

(***************************************************************************)
(* More properties of the running light.                                   *)
(***************************************************************************)
\* the jump count of the light and the jump of the frame that was rendered
LightJumps ==
    calc_animation_jumps(rl.range, AnimationType_animation_len(rl.animation),
                         rl.border_wrapping, build = "debug")

FrameJump ==
    scale_time_to_jump(rl_call.tick, rl.duration, LightJumps.v, rl.start_offset,
                       build = "debug")

\* C30: for every tick in [0, duration] and every start offset with
\* |start_offset| < jump_count, the jump that the tick is scaled to lies in
\* [0, jump_count): it is never negative and never equal to or greater than
\* jump_count.
C30_JumpBelowJumpCount ==
    (/\ rl_call.made
     /\ rl_call.tick <= rl.duration
     /\ ~LightJumps.panic
     /\ Abs(rl.start_offset) < LightJumps.v
     /\ ~FrameJump.panic)
        => (0 <= FrameJump.v /\ FrameJump.v < LightJumps.v)

(***************************************************************************)
(* Properties of a swept light with Dynamic from-coloring.                 *)
(***************************************************************************)
\* C28: once a LED has been rendered at progress index 0 its cache entry is
\* evicted: immediately afterwards load_color(led) is not-found and the LED
\* counts in no bucket.
C28_FinalPositionEvicts ==
    \A k \in 1..Len(rl_call.rendered) :
        rl_call.rendered[k].idx = 0 =>
            /\ rl_call.rendered[k].after = None
            /\ rl_call.rendered[k].buckets = 0

\* C29: the strip color of a LED is sampled once, on its first touch with no
\* cached entry, and that color is the from-color used for the LED on every
\* later tick until its eviction: a LED touched with no cached entry fades
\* from the strip color of that moment, and a LED that was rendered in the
\* frame before, not at progress index 0, fades from the same color as there.
C29_SeededFromColorKept ==
    [][\A k \in 1..Len(rl_call'.rendered) :
          LET now == rl_call'.rendered[k]
          IN  /\ now.before = None => now.from = now.sampled
              /\ \A j \in 1..Len(rl_call.rendered) :
                    (rl_call.rendered[j].led = now.led /\ rl_call.rendered[j].idx # 0)
                        => now.from = rl_call.rendered[j].from]_vars


(***************************************************************************)
(* Properties of the frames of a running light.                            *)
(***************************************************************************)
\* the ordinals the frame handed to the index map and had answered
FrameOrdinals == {rl_call.ordinals[i] : i \in 1..Len(rl_call.ordinals)}

\* C31: for a RunningLight with window length W <= L and start offset 0, under
\* either border policy, every frame at a tick in [0, duration] ends without a
\* failure and every ordinal it hands to the index map lies in [0, L): no
\* request is refused as "Led index out of range".
C31_OrdinalsInDomain ==
    (rl_call.made /\ RlW <= RlL /\ rl.start_offset = 0)
        => /\ rl_call.outcome = "ok"
           /\ \A o \in FrameOrdinals : 0 <= o /\ o < RlL

\* a wrapping window over the start of the range: two chunks, W ordinals, the
\* last ordinal of the range among them
C31_Witness ==
    /\ rl_call.made
    /\ RlW <= RlL
    /\ rl.start_offset = 0
    /\ rl.border_wrapping = "WrappingStartEnd"
    /\ Len(rl_call.chunks) = 2
    /\ Len(rl_call.ordinals) = RlW
    /\ RlL - 1 \in FrameOrdinals

(***************************************************************************)
(* More properties of the scheduler.                                       *)
(***************************************************************************)
\* C32: a timeline is reported finished at a local tick t only when none of its
\* animations is still active at t: has_finished(t) implies that
\* get_current_entries(t) yields nothing, also when an animation that starts
\* earlier lasts longer than the animation with the latest start.
C32_FinishedMeansNothingActive ==
    (tl # None /\ tl_query.op = "has_finished" /\ tl_query.finished)
        => DynTimeline_get_current_entries(tl[1], tl_query.tick) = <<>>

\* the single-animation processors of the controller that an update at the
\* controller's tick finds inside the duration of their animation
SinglesInsideDuration ==
    {i \in 1..Len(ac.processors) :
        /\ ac.processors[i].processor.kind = "single"
        /\ ac.processors[i].processor.animation.at_tick <= ac.current_tick
        /\ ac.current_tick < ac.processors[i].processor.animation.at_tick
                + TimedAnimation_animation_duration(ac.processors[i].processor.animation)}

\* C33: an animation queued with queue_animation at tick s with duration d >= 1
\* is rendered on the controller updates with a tick inside [s, s + d) and is
\* not finished by them: after such an update its processor is still
\* registered, not marked finished, and its coloring is among the writes.
C33_SingleAnimationRendered ==
    [][ac'.current_tick = ac.current_tick + 1
          => \A i \in SinglesInsideDuration :
                /\ \E j \in 1..Len(ac'.processors) : ac'.processors[j] = ac.processors[i]
                /\ \E k \in 1..Len(ac_call'.writes) :
                      ac_call'.writes[k].led = ac.processors[i].processor.animation.animation.led
                ]_vars

\* C34: for a repeating timeline, on exactly the updates at which
\* has_finished(tick - tick_offset) holds the processor sets tick_offset to the
\* tick of the update and adds one to iteration_index, so the local tick of
\* that update is 0; every other update leaves both unchanged; with ticks that
\* do not decrease tick_offset never exceeds the tick of the update.
C34_RestartResetsOffset ==
    [][(tp # None /\ tp' # None /\ tp_tick' > tp_tick /\ tp[1].timeline.repeating)
          => LET finished == DynTimeline_has_finished(tp[1].timeline,
                                                      tp_tick - tp[1].tick_offset)
             IN  /\ tp[1].tick_offset <= tp_tick
                 /\ tp'[1].tick_offset <= tp_tick
                 /\ tp_call'.found_finished = finished
                 /\ finished => /\ tp'[1].tick_offset = tp_tick
                                /\ tp'[1].iteration_index = tp[1].iteration_index + 1
                                /\ tp_tick - tp'[1].tick_offset = 0
                 /\ ~finished => /\ tp'[1].tick_offset = tp[1].tick_offset
                                 /\ tp'[1].iteration_index = tp[1].iteration_index
      ]_vars

\* a repeating timeline with animations that has restarted at a tick after 0
\* and has been updated without a restart since
C34_Witness ==
    /\ tp # None
    /\ tp[1].timeline.repeating
    /\ tp[1].timeline.entries # <<>>
    /\ tp[1].iteration_index >= 1
    /\ tp[1].tick_offset > 0
    /\ tp_call.made
    /\ ~tp_call.found_finished
    /\ tp_call.tick > tp[1].tick_offset

(***************************************************************************)
(* More properties of the frames of a running light.                       *)
(***************************************************************************)
Max2(a, b) == IF a >= b THEN a ELSE b
Min2(a, b) == IF a <= b THEN a ELSE b

\* the ordinals lo, lo + 1, .., hi
Ascent(lo, hi) == [i \in 1..(hi - lo + 1) |-> lo + i - 1]

\* the window positions of the frame's items, in the order they are rendered
FramePositions == Positions(rl_call.chunks)

\* C35: for a Clamp-mode RunningLight with start offset 0 over a range of
\* length L with window length W the jump count is L + W - 2 and the anchor at
\* jump j is j - (W - 1); the frame at jump j touches exactly the ordinals
\* max(0, j-W+1) .. min(j, L-1) in increasing order, each at the window
\* position ordinal - anchor; at tick 0 that is only the first LED at window
\* position W-1 and at tick = duration only the last LED at window position 0.
C35_ClampFrames ==
    (rl_call.made /\ rl.border_wrapping = "ClosedStartEnd" /\ rl.start_offset = 0 /\ RlL >= 1)
        => /\ rl_call.jumps = RlL + RlW - 2
           /\ rl_call.anchor = rl_call.act_jump - (RlW - 1)
           /\ rl_call.outcome = "ok"
           /\ rl_call.ordinals = Ascent(Max2(0, rl_call.act_jump - RlW + 1),
                                        Min2(rl_call.act_jump, RlL - 1))
           /\ FramePositions = [i \in 1..Len(rl_call.ordinals) |->
                                   rl_call.ordinals[i] - rl_call.anchor]
           /\ rl_call.tick = 0 => rl_call.ordinals = <<0>> /\ FramePositions = <<RlW - 1>>
           /\ rl_call.tick = rl.duration
                 => rl_call.ordinals = <<RlL - 1>> /\ FramePositions = <<0>>

(***************************************************************************)
(* Termination of the window iterator.                                     *)
(***************************************************************************)
\* next() returns None and leaves the iterator as it is
ReturnsEnd(it) ==
    ActiveRangeIter_next(it, build = "debug") = [panic |-> FALSE, item |-> None, it |-> it]

\* C36: under Clamp and under Wrap, for L >= 1, 1 <= W <= L and an anchor in
\* [-W, L], the enumeration is finite: no call of next() panics, at most two
\* chunks are yielded, after two chunks next() returns the end of the
\* sequence, and once it has returned the end every later call returns it too.
C36_EnumerationEnds ==
    (/\ ar.border_type \in {"ClosedStartEnd", "WrappingStartEnd"}
     /\ 1 <= W0 /\ W0 <= L0
     /\ 0 - W0 <= ar_anchor0 /\ ar_anchor0 <= L0)
    => /\ ar_status # "panic"
       /\ Len(ar_chunks) <= 2
       /\ Len(ar_chunks) = 2 => ReturnsEnd(ar)
       /\ ar_status = "done" => ReturnsEnd(ar)

\* a window that wraps over the end of the range was enumerated to its end in
\* two chunks
C36_Witness ==
    /\ ar.border_type = "WrappingStartEnd"
    /\ 1 <= W0 /\ W0 <= L0
    /\ 0 < ar_anchor0 /\ ar_anchor0 <= L0
    /\ ar_status = "done"
    /\ Len(ar_chunks) = 2

(***************************************************************************)
(* Properties of maps bounded by a range.                                  *)
(***************************************************************************)
\* the outermost combinator was built by from_range
FromRange == OutermostIs("bounded") /\ "range" \in DOMAIN Outer(ix_map)

\* C37: BoundedIndexed::from_range(M, r) maps exactly the ordinals of M that
\* lie in r, for every kind of range bound: with a the first ordinal in r and
\* b the first one beyond it (a..b and a..=(b-1) alike, an unbounded start is
\* 0 and an unbounded end is M.len()), len() = b - a and
\* index(i) = M.index(a + i) for every i < b - a.
C37_FromRangeKeepsRange ==
    FromRange =>
        LET a == RangeFirst(Outer(ix_map).range)
            b == RangeBeyond(Outer(ix_map).range, Indexing_len(Inner(ix_map)))
        IN  /\ Indexing_len(ix_map) = b - a
            /\ \A i \in 0..(b - a - 1) : MapIndex(i) = InnerIndex(a + i)

(***************************************************************************)
(* Properties of the cache of a StaticAnimation.                           *)
(***************************************************************************)
\* the LEDs the index map of sa addresses
StaticLeds ==
    {AddressedLeds(sa.range, 0, FALSE)[i] :
        i \in 1..Len(AddressedLeds(sa.range, 0, FALSE))}

\* C38: from the first render call of a StaticAnimation on, its cache holds
\* exactly the LEDs its index map addresses, each under the color the strip
\* had at that first call, whatever was written to the strip since; every
\* coloring fades from that color, and no later render call changes the cache.
C38_CacheSeededOnce ==
    /\ sa_call.renders >= 1 =>
          /\ ColorCache_cache_size(cc) = Cardinality(StaticLeds)
          /\ \A led_id \in DOMAIN sa_call.seeded :
                ColorCache_load_color(cc, led_id)
                    = IF led_id \in StaticLeds
                      THEN Some(rgb_to_hsv(sa_call.seeded[led_id]))
                      ELSE None
          /\ \A i \in 1..Len(sa_call.colorings) :
                sa_call.colorings[i].from
                    = rgb_to_hsv(sa_call.seeded[sa_call.colorings[i].led])
    /\ sa_call.renders = 0 => cc = ColorCache_new

\* a later render call found an addressed LED on the strip under another
\* color than its from-color, in a map that addresses a LED twice
C38_Witness ==
    /\ sa_call.renders >= 2
    /\ sa_call.stale
    /\ Cardinality(StaticLeds) < Len(sa_call.colorings)

(***************************************************************************)
(* Properties of the order of a timeline.                                  *)
(***************************************************************************)
\* the entries of s that start at tick `start`, in the order of s
StartingAt(s, start) == SelectSeq(s, LAMBDA e : e.at_tick = start)

\* the entries of a built timeline are the animations added to the builder,
\* by non-decreasing start tick, those of one start tick in the order added
EntriesOrdered ==
    tl # None =>
        /\ Len(tl[1].entries) = Len(tlb.animations)
        /\ \A i, j \in 1..Len(tl[1].entries) :
              i < j => tl[1].entries[i].at_tick <= tl[1].entries[j].at_tick
        /\ \A start \in 0..MaxStart :
              StartingAt(tl[1].entries, start) = StartingAt(tlb.animations, start)

\* C39: a timeline built with DynTimelineBuilder holds the animations added,
\* ordered by non-decreasing start tick whatever the order of the add_animation
\* calls, those of equal start tick in insertion order, and no later step
\* changes the timeline.
C39_OrderedByStart ==
    /\ []EntriesOrdered
    /\ [][tl # None => tl' = tl]_vars

\* a built timeline whose entries are not in the order they were added, after a
\* query
C39_Witness ==
    /\ tl # None
    /\ tl_query.op # "none"
    /\ Len(tl[1].entries) = MaxEntries
    /\ tl[1].entries # tlb.animations

(***************************************************************************)
(* Properties of the iteration state.                                      *)
(***************************************************************************)
\* the iteration state of am has the tag and the fields that the counts it was
\* built from ask for: a count that the tag does not fix at 0 is a field
IterationStateOfCounts ==
    am.by # "none" =>
        LET iteration_state == am.meta.iteration_state
            iteration_index == am.iteration_index
            remaining_iterations == am.remaining_iterations
        IN  /\ iteration_state.tag = "Single"
                   <=> (iteration_index = 0 /\ remaining_iterations = 0)
            /\ iteration_state.tag = "First"
                   <=> (iteration_index = 0 /\ remaining_iterations > 0)
            /\ iteration_state.tag = "Last"
                   <=> (iteration_index > 0 /\ remaining_iterations = 0)
            /\ iteration_state.tag = "Looping"
                   <=> (iteration_index > 0 /\ remaining_iterations > 0)
            /\ DOMAIN iteration_state
                   = {"tag"} \cup (IF iteration_index > 0 THEN {"iteration_index"} ELSE {})
                             \cup (IF remaining_iterations > 0
                                   THEN {"remaining_iterations"} ELSE {})
            /\ iteration_index > 0 => iteration_state.iteration_index = iteration_index
            /\ remaining_iterations > 0
                   => iteration_state.remaining_iterations = remaining_iterations

\* an update of the processor builds the iteration state from the iteration
\* index it has after its restart test, with u32::MAX iterations remaining
UpdateBuildsIterationState ==
    tp_tick' # tp_tick =>
        /\ am'.by = "update"
        /\ am'.iteration_index = tp'[1].iteration_index
        /\ am'.remaining_iterations = U32Max
        /\ am'.meta.iteration_state
               = IF tp'[1].iteration_index = 0
                 THEN [tag |-> "First", remaining_iterations |-> U32Max]
                 ELSE [tag |-> "Looping", iteration_index |-> tp'[1].iteration_index,
                       remaining_iterations |-> U32Max]

\* C40: the iteration state built from (iteration_index, remaining_iterations)
\* is Single iff both are 0, First iff the index is 0 and iterations remain,
\* Last iff the index is above 0 and none remain, Looping otherwise, and it
\* carries the counts given; every update of a TimelineProcessor builds one
\* from the iteration index the processor has then.
C40_IterationState ==
    /\ []IterationStateOfCounts
    /\ [][UpdateBuildsIterationState]_vars

\* an update after a restart of a repeating timeline: the state is Looping
C40_Witness ==
    /\ am.by = "update"
    /\ tp[1].timeline.entries # <<>>
    /\ tp[1].iteration_index >= 1
    /\ am.meta.iteration_state.tag = "Looping"
    /\ am.meta.iteration_state.iteration_index = tp[1].iteration_index
====
